---- MODULE Spec2Model ----
(***************************************************************************)
(* Model of the openscreen CLI effect compiler: the trim planner, the      *)
(* crop / zoom / annotation / background filter generators and the         *)
(* pipeline planner (buildPipeline).                                       *)
(*                                                                         *)
(* Conventions                                                             *)
(*  - A path is a sequence of one-character strings, so that lastIndexOf   *)
(*    and substring act on it as they do in the source; Str joins it into  *)
(*    the argument string handed to the engine.                            *)
(*  - A time in seconds is kept as an integer number of thousandths        *)
(*    (x / 1000 of an integer x is kept as x); toFixed3 and numStr format  *)
(*    it the way Number.prototype.toFixed(3) and String(number) do.        *)
(*  - A normalized value is a fraction <<n, d>> with d > 0; Math.round is  *)
(*    computed exactly on fractions.                                        *)
(*  - config, steps belong to the pipeline planner; call, result hold the  *)
(*    arguments and the return value of one exported function of trim.ts   *)
(*    or zoom.ts called on its own; pc names what has been computed.       *)
(***************************************************************************)
EXTENDS Integers, Sequences, FiniteSets, TLC

VARIABLES config, steps, pc, call, result

vars == <<config, steps, pc, call, result>>

(***************************************************************************)
(* Bounds of the model                                                     *)
(***************************************************************************)
MaxTrim == 1
MaxZoom == 1
MaxAnn == 1
MaxCuts == 3
MaxRegions == 2
MaxTicks == 55
MaxFrame == 8

(***************************************************************************)
(* Strings, numbers                                                        *)
(***************************************************************************)
RECURSIVE Str(_)
Str(s) == IF s = <<>> THEN "" ELSE Head(s) \o Str(Tail(s))

RECURSIVE join(_, _)
join(parts, sep) ==
  IF parts = <<>> THEN ""
  ELSE IF Len(parts) = 1 THEN parts[1]
  ELSE parts[1] \o sep \o join(Tail(parts), sep)

RECURSIVE concatAll(_)
concatAll(parts) == IF parts = <<>> THEN "" ELSE Head(parts) \o concatAll(Tail(parts))

RECURSIVE repeat(_, _)
repeat(s, n) == IF n <= 0 THEN "" ELSE s \o repeat(s, n - 1)

abs(n) == IF n < 0 THEN -n ELSE n

min(a, b) == IF a < b THEN a ELSE b

max(a, b) == IF a > b THEN a ELSE b

\* Math.round on the fraction n / d (d > 0): floor(n/d + 1/2)
round(n, d) == (2 * n + d) \div (2 * d)

pad3(k) ==
  IF k < 10 THEN "00" \o ToString(k)
  ELSE IF k < 100 THEN "0" \o ToString(k)
  ELSE ToString(k)

\* (x / 1000).toFixed(3) for an integer x
toFixed3(x) ==
  (IF x < 0 THEN "-" ELSE "") \o ToString(abs(x) \div 1000) \o "." \o pad3(abs(x) % 1000)

\* String(x / 1000) for an integer x: shortest decimal, no trailing zeros
numStr(x) ==
  LET a == abs(x)
      f == a % 1000
      frac == IF f = 0 THEN ""
              ELSE IF f % 100 = 0 THEN "." \o ToString(f \div 100)
              ELSE IF f % 10 = 0 THEN "." \o (IF f < 100 THEN "0" ELSE "") \o ToString(f \div 10)
              ELSE "." \o pad3(f)
  IN (IF x < 0 THEN "-" ELSE "") \o ToString(a \div 1000) \o frac

(***************************************************************************)
(* String.prototype.lastIndexOf / substring on character sequences         *)
(* (0-based indices, as in the source)                                     *)
(***************************************************************************)
lastIndexOf(s, c) ==
  LET hits == {i \in 1..Len(s) : s[i] = c}
  IN IF hits = {} THEN -1 ELSE (CHOOSE i \in hits : \A j \in hits : j <= i) - 1

substring(s, from, to) ==
  LET a0 == max(0, min(from, Len(s)))
      b0 == max(0, min(to, Len(s)))
      a == min(a0, b0)
      b == max(a0, b0)
  IN SubSeq(s, a + 1, b)

substringFrom(s, from) == substring(s, from, Len(s))

(***************************************************************************)
(* Trim planner (trim.ts)                                                  *)
(***************************************************************************)
\* [...regions].sort((a, b) => a.startMs - b.startMs): stable, ascending
RECURSIVE insertByStart(_, _)
insertByStart(sorted, r) ==
  IF sorted = <<>> THEN <<r>>
  ELSE IF r.startMs < Head(sorted).startMs THEN <<r>> \o sorted
  ELSE <<Head(sorted)>> \o insertByStart(Tail(sorted), r)

\* variant: the regions are walked in input order
sortByStart_inputOrder(regions) == regions

RECURSIVE sortByStart(_)
sortByStart(regions) ==
  IF regions = <<>> THEN <<>>
  ELSE insertByStart(sortByStart(SubSeq(regions, 1, Len(regions) - 1)),
                     regions[Len(regions)])

\* the loop of computeKeptSegments: acc = [segments, cursor]
RECURSIVE keptWalk(_, _, _)
keptWalk(sorted, segments, cursor) ==
  IF sorted = <<>> THEN [segments |-> segments, cursor |-> cursor]
  ELSE LET trim == Head(sorted)
           trimStart == trim.startMs
           trimEnd == trim.endMs
           segs2 == IF cursor < trimStart
                    THEN Append(segments, [startSec |-> cursor, endSec |-> trimStart])
                    ELSE segments
       IN keptWalk(Tail(sorted), segs2, trimEnd)

computeKeptSegments(trimRegions, totalDurationMs) ==
  IF Len(trimRegions) = 0
  THEN <<[startSec |-> 0, endSec |-> totalDurationMs]>>
  ELSE LET w == keptWalk(sortByStart(trimRegions), <<>>, 0)
           totalSec == totalDurationMs
       IN IF w.cursor < totalSec
          THEN Append(w.segments, [startSec |-> w.cursor, endSec |-> totalSec])
          ELSE w.segments

RECURSIVE sumCut(_)
sumCut(regions) ==
  IF regions = <<>> THEN 0
  ELSE (Head(regions).endMs - Head(regions).startMs) + sumCut(Tail(regions))

\* variant: the result is floored at zero
computeEffectiveDuration_floored(trimRegions, totalDurationMs) ==
  max(0, totalDurationMs - sumCut(trimRegions))

computeEffectiveDuration(trimRegions, totalDurationMs) ==
  totalDurationMs - sumCut(trimRegions)

RECURSIVE trimSegFilters(_, _, _)
trimSegFilters(segments, i, hasAudio) ==
  IF i > Len(segments) THEN <<>>
  ELSE LET seg == segments[i]
           idx == ToString(i - 1)
           v == "[0:v]trim=start=" \o toFixed3(seg.startSec) \o ":end=" \o toFixed3(seg.endSec)
                \o ",setpts=PTS-STARTPTS[v" \o idx \o "]"
           a == "[0:a]atrim=start=" \o toFixed3(seg.startSec) \o ":end=" \o toFixed3(seg.endSec)
                \o ",asetpts=PTS-STARTPTS[a" \o idx \o "]"
       IN (IF hasAudio THEN <<v, a>> ELSE <<v>>) \o trimSegFilters(segments, i + 1, hasAudio)

RECURSIVE labels(_, _, _)
labels(prefix, i, n) ==
  IF i >= n THEN "" ELSE "[" \o prefix \o ToString(i) \o "]" \o labels(prefix, i + 1, n)

generateTrimFilterAudio(trimRegions, totalDurationMs, hasAudio) ==
  LET segments == computeKeptSegments(trimRegions, totalDurationMs)
      n == Len(segments)
  IN IF n = 0 THEN ""
     ELSE IF n = 1 /\ segments[1].startSec = 0
     THEN LET seg == segments[1]
              v == "[0:v]trim=start=" \o numStr(seg.startSec) \o ":end=" \o numStr(seg.endSec)
                   \o ",setpts=PTS-STARTPTS[outv]"
              a == "[0:a]atrim=start=" \o numStr(seg.startSec) \o ":end=" \o numStr(seg.endSec)
                   \o ",asetpts=PTS-STARTPTS[outa]"
          IN join(IF hasAudio THEN <<v, a>> ELSE <<v>>, "; ")
     ELSE LET concat == IF hasAudio
                        THEN labels("v", 0, n) \o labels("a", 0, n) \o "concat=n=" \o ToString(n)
                             \o ":v=1:a=1[outv][outa]"
                        ELSE labels("v", 0, n) \o "concat=n=" \o ToString(n) \o ":v=1:a=0[outv]"
          IN join(Append(trimSegFilters(segments, 1, hasAudio), concat), "; ")

\* generateTrimFilter with hasAudio left at its default (true)
generateTrimFilter(trimRegions, totalDurationMs) ==
  generateTrimFilterAudio(trimRegions, totalDurationMs, TRUE)

buildTrimCommand(inputPath, outputPath, trimRegions, totalDurationMs, hasAudio) ==
  IF Len(trimRegions) = 0
  THEN <<"ffmpeg", "-y", "-i", inputPath, "-c", "copy", outputPath>>
  ELSE LET segments == computeKeptSegments(trimRegions, totalDurationMs)
       IN IF Len(segments) = 1
          THEN <<"ffmpeg", "-y", "-ss", toFixed3(segments[1].startSec),
                 "-to", toFixed3(segments[1].endSec), "-i", inputPath,
                 "-c:v", "libx264", "-preset", "fast", "-crf", "18">>
               \o (IF hasAudio THEN <<"-c:a", "aac">> ELSE <<"-an">>) \o <<outputPath>>
          ELSE <<"ffmpeg", "-y", "-i", inputPath,
                 "-filter_complex", generateTrimFilterAudio(trimRegions, totalDurationMs, hasAudio),
                 "-map", "[outv]">>
               \o (IF hasAudio THEN <<"-map", "[outa]">> ELSE <<>>)
               \o <<"-c:v", "libx264", "-preset", "fast", "-crf", "18">>
               \o (IF hasAudio THEN <<"-c:a", "aac">> ELSE <<>>)
               \o <<outputPath>>

(***************************************************************************)
(* Optional fields (`field?: T`): <<>> when absent, <<v>> when present     *)
(***************************************************************************)
None == <<>>

Some(v) == <<v>>

\* `o ?? d`
orElse(o, d) == IF o = <<>> THEN d ELSE o[1]

(***************************************************************************)
(* Fractions <<n, d>>, d > 0                                               *)
(***************************************************************************)
fLess(a, b) == a[1] * b[2] < b[1] * a[2]

fMin(a, b) == IF fLess(b, a) THEN b ELSE a

fMax(a, b) == IF fLess(a, b) THEN b ELSE a

RECURSIVE gcd(_, _)
gcd(a, b) == IF b = 0 THEN a ELSE gcd(b, a % b)

\* the fraction in lowest terms: equal numbers get equal representations
norm(f) == LET g == gcd(abs(f[1]), f[2]) IN <<f[1] \div g, f[2] \div g>>

fAdd(a, b) == norm(<<a[1] * b[2] + b[1] * a[2], a[2] * b[2]>>)

fSub(a, b) == norm(<<a[1] * b[2] - b[1] * a[2], a[2] * b[2]>>)

fMul(a, b) == norm(<<a[1] * b[1], a[2] * b[2]>>)

\* 1 / a for a > 0
fInv(a) == norm(<<a[2], a[1]>>)

fInt(n) == <<n, 1>>

\* clamp(v, min, max) of zoom.ts for a number v (the NaN branch needs a NaN input)
clamp(v, lo, hi) == fMin(hi, fMax(lo, v))

(***************************************************************************)
(* Crop generator (crop.ts)                                                *)
(***************************************************************************)
\* variant: the rounded width and height are emitted as they are
cropPixels_rounded(crop, inputWidth, inputHeight) ==
  [w |-> round(crop.width[1] * inputWidth, crop.width[2]),
   h |-> round(crop.height[1] * inputHeight, crop.height[2]),
   x |-> round(crop.x[1] * inputWidth, crop.x[2]),
   y |-> round(crop.y[1] * inputHeight, crop.y[2])]

cropPixels(crop, inputWidth, inputHeight) ==
  LET x == round(crop.x[1] * inputWidth, crop.x[2])
      y == round(crop.y[1] * inputHeight, crop.y[2])
      w == round(crop.width[1] * inputWidth, crop.width[2])
      h == round(crop.height[1] * inputHeight, crop.height[2])
      evenW == IF w % 2 = 0 THEN w ELSE w - 1
      evenH == IF h % 2 = 0 THEN h ELSE h - 1
  IN [w |-> evenW, h |-> evenH, x |-> x, y |-> y]

generateCropFilter(crop, inputWidth, inputHeight) ==
  LET p == cropPixels(crop, inputWidth, inputHeight)
  IN "crop=" \o ToString(p.w) \o ":" \o ToString(p.h) \o ":" \o ToString(p.x) \o ":" \o ToString(p.y)

(***************************************************************************)
(* Zoom compiler (zoom.ts, types.ts)                                       *)
(***************************************************************************)
\* variant: a 400 ms transition
TRANSITION_MS_longer == 320 + 80

TRANSITION_MS == 320

\* ZOOM_DEPTH_SCALES as fractions: 1.25, 1.5, 1.8, 2.2, 3.5, 5.0
ZOOM_DEPTH_SCALES ==
  [d \in 1..6 |-> CASE d = 1 -> <<5, 4>>
                    [] d = 2 -> <<3, 2>>
                    [] d = 3 -> <<9, 5>>
                    [] d = 4 -> <<11, 5>>
                    [] d = 5 -> <<7, 2>>
                    [] d = 6 -> <<5, 1>>]

\* variant: the focus is clamped to the unit square only
clampFocus_unit(focus, depth) ==
  [cx |-> clamp(focus.cx, <<0, 1>>, <<1, 1>>), cy |-> clamp(focus.cy, <<0, 1>>, <<1, 1>>)]

clampFocus(focus, depth) ==
  LET scale == ZOOM_DEPTH_SCALES[depth]
      margin == <<scale[2], 2 * scale[1]>>
      upper == <<2 * scale[1] - scale[2], 2 * scale[1]>>
  IN [cx |-> clamp(focus.cx, margin, upper), cy |-> clamp(focus.cy, margin, upper)]

\* variant: the cubic without the clamp to [0, 1]
smoothStep_unclamped(t) ==
  fMul(fMul(norm(t), norm(t)), fSub(fInt(3), fMul(fInt(2), norm(t))))

smoothStep(t) ==
  LET c == norm(fMax(fInt(0), fMin(fInt(1), t)))
  IN fMul(fMul(c, c), fSub(fInt(3), fMul(fInt(2), c)))

computeRegionStrength(region, timeMs) ==
  LET leadInStart == region.startMs - TRANSITION_MS
      leadOutEnd == region.endMs + TRANSITION_MS
      fadeIn == smoothStep(<<timeMs - leadInStart, TRANSITION_MS>>)
      fadeOut == smoothStep(<<leadOutEnd - timeMs, TRANSITION_MS>>)
  IN IF timeMs < leadInStart \/ timeMs > leadOutEnd
     THEN fInt(0)
     ELSE fMin(fadeIn, fadeOut)

\* the loop of findDominantRegion over the rest of the list
RECURSIVE dominantWalk(_, _, _, _)
dominantWalk(regions, timeMs, best, bestStrength) ==
  IF regions = <<>>
  THEN [region |-> best, strength |-> bestStrength]
  ELSE LET s == computeRegionStrength(Head(regions), timeMs)
       IN IF fLess(bestStrength, s)
          THEN dominantWalk(Tail(regions), timeMs, Some(Head(regions)), s)
          ELSE dominantWalk(Tail(regions), timeMs, best, bestStrength)

\* variant: the regions are visited in start-time order
findDominantRegion_byStart(regions, timeMs) ==
  dominantWalk(sortByStart(regions), timeMs, None, fInt(0))

findDominantRegion(regions, timeMs) == dominantWalk(regions, timeMs, None, fInt(0))

\* variant: the crop size itself is blended linearly between 1 and 1/scale
keyframeAt_linearCrop(regions, t) ==
  LET dominant == findDominantRegion(regions, t)
  IN IF dominant.region # None /\ fLess(fInt(0), dominant.strength)
     THEN LET region == dominant.region[1]
              strength == dominant.strength
              scale == ZOOM_DEPTH_SCALES[region.depth]
              clamped == clampFocus(region.focus, region.depth)
              zoomFraction == fAdd(fInt(1), fMul(fSub(fInv(scale), fInt(1)), strength))
          IN [timeMs |-> t, cropWidth |-> zoomFraction, cropHeight |-> zoomFraction,
              centerX |-> fAdd(<<1, 2>>, fMul(fSub(clamped.cx, <<1, 2>>), strength)),
              centerY |-> fAdd(<<1, 2>>, fMul(fSub(clamped.cy, <<1, 2>>), strength))]
     ELSE [timeMs |-> t, cropWidth |-> fInt(1), cropHeight |-> fInt(1),
           centerX |-> <<1, 2>>, centerY |-> <<1, 2>>]

\* one pass of the loop of sampleZoomKeyframes: the keyframe pushed at tick t
keyframeAt(regions, t) ==
  LET dominant == findDominantRegion(regions, t)
  IN IF dominant.region # None /\ fLess(fInt(0), dominant.strength)
     THEN LET region == dominant.region[1]
              strength == dominant.strength
              scale == ZOOM_DEPTH_SCALES[region.depth]
              clamped == clampFocus(region.focus, region.depth)
              zoomFraction == fInv(fAdd(fInt(1), fMul(fSub(scale, fInt(1)), strength)))
          IN [timeMs |-> t, cropWidth |-> zoomFraction, cropHeight |-> zoomFraction,
              centerX |-> fAdd(<<1, 2>>, fMul(fSub(clamped.cx, <<1, 2>>), strength)),
              centerY |-> fAdd(<<1, 2>>, fMul(fSub(clamped.cy, <<1, 2>>), strength))]
     ELSE [timeMs |-> t, cropWidth |-> fInt(1), cropHeight |-> fInt(1),
           centerX |-> <<1, 2>>, centerY |-> <<1, 2>>]

\* for (let t = ...; t <= durationMs; t += sampleIntervalMs)
RECURSIVE sampleFrom(_, _, _, _)
sampleFrom(regions, durationMs, sampleIntervalMs, t) ==
  IF t <= durationMs
  THEN <<keyframeAt(regions, t)>> \o sampleFrom(regions, durationMs, sampleIntervalMs, t + sampleIntervalMs)
  ELSE <<>>

sampleZoomKeyframes(regions, durationMs, sampleIntervalMs) ==
  sampleFrom(regions, durationMs, sampleIntervalMs, 0)

\* the crop window of generateStaticZoomFilter, in pixels
staticCrop(focus, depth, inputWidth, inputHeight) ==
  LET scale == ZOOM_DEPTH_SCALES[depth]
      clamped == clampFocus(focus, depth)
      cropW == round(inputWidth * scale[2], scale[1])
      cropH == round(inputHeight * scale[2], scale[1])
      cropX == round(2 * clamped.cx[1] * inputWidth - cropW * clamped.cx[2], 2 * clamped.cx[2])
      cropY == round(2 * clamped.cy[1] * inputHeight - cropH * clamped.cy[2], 2 * clamped.cy[2])
  IN [cropW |-> cropW, cropH |-> cropH, cropX |-> cropX, cropY |-> cropY]

staticFilterString(crop, inputWidth, inputHeight) ==
  "crop=" \o ToString(crop.cropW) \o ":" \o ToString(crop.cropH) \o ":"
  \o ToString(crop.cropX) \o ":" \o ToString(crop.cropY)
  \o ",scale=" \o ToString(inputWidth) \o ":" \o ToString(inputHeight) \o ":flags=lanczos"

generateStaticZoomFilter(focus, depth, inputWidth, inputHeight) ==
  staticFilterString(staticCrop(focus, depth, inputWidth, inputHeight), inputWidth, inputHeight)

\* the target crop box of one region, in pixels
zoomBox(region, w, h) ==
  LET scale == ZOOM_DEPTH_SCALES[region.depth]
      focus == clampFocus(region.focus, region.depth)
      cropW == round(w * scale[2], scale[1])
      cropH == round(h * scale[2], scale[1])
      cropX == round(2 * focus.cx[1] * w - cropW * focus.cx[2], 2 * focus.cx[2])
      cropY == round(2 * focus.cy[1] * h - cropH * focus.cy[2], 2 * focus.cy[2])
  IN [w |-> cropW, h |-> cropH, x |-> cropX, y |-> cropY]

smoothExpr(progress) == "(3*pow(" \o progress \o ",2)-2*pow(" \o progress \o ",3))"

leadInExpr(region, full, zoomed) ==
  LET startSec == region.startMs - TRANSITION_MS
      activeStart == region.startMs
      range == "between(t," \o toFixed3(startSec) \o "," \o toFixed3(activeStart) \o ")"
      progress == "(t-" \o toFixed3(startSec) \o ")/" \o toFixed3(TRANSITION_MS)
  IN "if(" \o range \o ", " \o ToString(full) \o "+(" \o ToString(zoomed) \o "-" \o ToString(full)
     \o ")*" \o smoothExpr(progress) \o ", "

activeExpr(region, zoomed) ==
  "if(between(t," \o toFixed3(region.startMs) \o "," \o toFixed3(region.endMs) \o "), "
  \o ToString(zoomed) \o ", "

leadOutExpr(region, full, zoomed) ==
  LET endSec == region.endMs + TRANSITION_MS
      activeEnd == region.endMs
      range == "between(t," \o toFixed3(activeEnd) \o "," \o toFixed3(endSec) \o ")"
      progress == "(" \o toFixed3(endSec) \o "-t)/" \o toFixed3(TRANSITION_MS)
  IN "if(" \o range \o ", " \o ToString(full) \o "+(" \o ToString(zoomed) \o "-" \o ToString(full)
     \o ")*" \o smoothExpr(progress) \o ", "

regionExpr(region, full, zoomed) ==
  leadInExpr(region, full, zoomed) \o activeExpr(region, zoomed) \o leadOutExpr(region, full, zoomed)

\* combine(exprs, defaultVal) for the parameter `param` ("w", "h", "x" or "y")
RECURSIVE paramExprs(_, _, _, _, _)
paramExprs(sorted, param, full, w, h) ==
  IF sorted = <<>> THEN ""
  ELSE regionExpr(Head(sorted), full, zoomBox(Head(sorted), w, h)[param])
       \o paramExprs(Tail(sorted), param, full, w, h)

buildCropExpressions(regions, w, h) ==
  IF Len(regions) = 0
  THEN [w |-> ToString(w), h |-> ToString(h), x |-> "0", y |-> "0"]
  ELSE LET sorted == sortByStart(regions)
           numExprs == Len(sorted) * 3
           combine(param, defaultVal) ==
             paramExprs(sorted, param, defaultVal, w, h) \o ToString(defaultVal)
             \o repeat(")", numExprs)
       IN [w |-> combine("w", w), h |-> combine("h", h), x |-> combine("x", 0), y |-> combine("y", 0)]

(***************************************************************************)
(* The value ffmpeg computes for a crop expression at frame time t (ms).   *)
(* Each `if(between(t,lo,hi), value, ` of the string is one branch; the    *)
(* nesting makes the first branch whose range holds t decide.              *)
(***************************************************************************)
regionBranches(region, full, zoomed) ==
  <<[kind |-> "leadIn", lo |-> region.startMs - TRANSITION_MS, hi |-> region.startMs,
     full |-> full, zoomed |-> zoomed],
    [kind |-> "active", lo |-> region.startMs, hi |-> region.endMs,
     full |-> full, zoomed |-> zoomed],
    [kind |-> "leadOut", lo |-> region.endMs, hi |-> region.endMs + TRANSITION_MS,
     full |-> full, zoomed |-> zoomed]>>

RECURSIVE paramBranches(_, _, _, _, _)
paramBranches(sorted, param, full, w, h) ==
  IF sorted = <<>> THEN <<>>
  ELSE regionBranches(Head(sorted), full, zoomBox(Head(sorted), w, h)[param])
       \o paramBranches(Tail(sorted), param, full, w, h)

\* (3*pow(p,2)-2*pow(p,3))
smoothPoly(p) ==
  fSub(fMul(fInt(3), fMul(norm(p), norm(p))),
       fMul(fInt(2), fMul(norm(p), fMul(norm(p), norm(p)))))

\* between(t,lo,hi)
between(t, lo, hi) == lo <= t /\ t <= hi

branchValue(b, t) ==
  LET lerp(progress) ==
        fAdd(fInt(b.full), fMul(fInt(b.zoomed - b.full), smoothPoly(progress)))
  IN CASE b.kind = "leadIn" -> lerp(<<t - b.lo, TRANSITION_MS>>)
       [] b.kind = "active" -> fInt(b.zoomed)
       [] b.kind = "leadOut" -> lerp(<<b.hi - t, TRANSITION_MS>>)

RECURSIVE evalBranches(_, _, _)
evalBranches(branches, defaultVal, t) ==
  IF branches = <<>> THEN fInt(defaultVal)
  ELSE IF between(t, Head(branches).lo, Head(branches).hi)
       THEN branchValue(Head(branches), t)
       ELSE evalBranches(Tail(branches), defaultVal, t)

\* variant: the branches follow the input order of the regions
cropAt_inputOrder(regions, w, h, t) ==
  LET at(param, defaultVal) ==
        evalBranches(paramBranches(regions, param, defaultVal, w, h), defaultVal, t)
  IN [w |-> at("w", w), h |-> at("h", h), x |-> at("x", 0), y |-> at("y", 0)]

\* the four expressions of buildCropExpressions at frame time t
cropAt(regions, w, h, t) ==
  IF Len(regions) = 0
  THEN [w |-> fInt(w), h |-> fInt(h), x |-> fInt(0), y |-> fInt(0)]
  ELSE LET sorted == sortByStart(regions)
           at(param, defaultVal) ==
             evalBranches(paramBranches(sorted, param, defaultVal, w, h), defaultVal, t)
       IN [w |-> at("w", w), h |-> at("h", h), x |-> at("x", 0), y |-> at("y", 0)]

generateZoomFilter(regions, inputWidth, inputHeight) ==
  IF Len(regions) = 0
  THEN "scale=" \o ToString(inputWidth) \o ":" \o ToString(inputHeight)
  ELSE LET parts == buildCropExpressions(regions, inputWidth, inputHeight)
       IN "crop=w=" \o parts.w \o ":h=" \o parts.h \o ":x=" \o parts.x \o ":y=" \o parts.y
          \o ",scale=" \o ToString(inputWidth) \o ":" \o ToString(inputHeight) \o ":flags=lanczos"

(***************************************************************************)
(* Annotation generator (annotations.ts)                                   *)
(***************************************************************************)
\* escapeDrawtext: the five replacements act on disjoint characters, and no
\* replacement text contains a character a later replacement looks for
escapeChar(c) ==
  CASE c = "\\" -> "\\\\\\\\"
    [] c = "'" -> "'\\''"
    [] c = ":" -> "\\:"
    [] c = "%" -> "%%"
    [] c = "\n" -> "\\n"
    [] OTHER -> c

RECURSIVE escapeDrawtext(_)
escapeDrawtext(text) ==
  IF text = <<>> THEN "" ELSE escapeChar(Head(text)) \o escapeDrawtext(Tail(text))

TRANSPARENT == <<"t", "r", "a", "n", "s", "p", "a", "r", "e", "n", "t">>

toFFmpegColor(hex) ==
  IF hex = TRANSPARENT THEN "0x00000000"
  ELSE IF hex # <<>> /\ hex[1] = "#" THEN "0x" \o Str(Tail(hex))
  ELSE Str(hex)

enableExpr(annotation) ==
  "enable='between(t," \o toFixed3(annotation.startMs) \o "," \o toFixed3(annotation.endMs) \o ")'"

textAnnotationFilter(annotation, canvasWidth, canvasHeight) ==
  LET x == round(annotation.x * canvasWidth, 100)
      y == round(annotation.y * canvasHeight, 100)
      fontSize == orElse(annotation.fontSize, 32)
      fontColor == toFFmpegColor(orElse(annotation.fontColor, <<"#", "f", "f", "f", "f", "f", "f">>))
      fontFamily == orElse(annotation.fontFamily, <<"s", "a", "n", "s", "-", "s", "e", "r", "i", "f">>)
      text == escapeDrawtext(annotation.text)
      parts == << "drawtext=text='" \o text \o "'",
                  "x=" \o ToString(x),
                  "y=" \o ToString(y),
                  "fontsize=" \o ToString(fontSize),
                  "fontcolor=" \o fontColor,
                  "fontfile=''",
                  "font='" \o Str(fontFamily) \o "'",
                  enableExpr(annotation) >>
      bg == annotation.backgroundColor
      box == IF bg # None /\ bg[1] # <<>> /\ bg[1] # TRANSPARENT
             THEN << "box=1", "boxcolor=" \o toFFmpegColor(bg[1]), "boxborderw=8" >>
             ELSE <<>>
  IN join(parts \o box, ":")

getArrowCoords(direction, cx, cy, size) ==
  LET half == round(size, 2)
  IN CASE direction = "right" -> [shaftX1 |-> cx - half, shaftY1 |-> cy, shaftX2 |-> cx + half, shaftY2 |-> cy]
       [] direction = "left" -> [shaftX1 |-> cx + half, shaftY1 |-> cy, shaftX2 |-> cx - half, shaftY2 |-> cy]
       [] direction = "up" -> [shaftX1 |-> cx, shaftY1 |-> cy + half, shaftX2 |-> cx, shaftY2 |-> cy - half]
       [] direction = "down" -> [shaftX1 |-> cx, shaftY1 |-> cy - half, shaftX2 |-> cx, shaftY2 |-> cy + half]
       [] direction = "up-right" -> [shaftX1 |-> cx - half, shaftY1 |-> cy + half, shaftX2 |-> cx + half, shaftY2 |-> cy - half]
       [] direction = "up-left" -> [shaftX1 |-> cx + half, shaftY1 |-> cy + half, shaftX2 |-> cx - half, shaftY2 |-> cy - half]
       [] direction = "down-right" -> [shaftX1 |-> cx - half, shaftY1 |-> cy - half, shaftX2 |-> cx + half, shaftY2 |-> cy + half]
       [] direction = "down-left" -> [shaftX1 |-> cx + half, shaftY1 |-> cy - half, shaftX2 |-> cx - half, shaftY2 |-> cy + half]
       [] OTHER -> [shaftX1 |-> cx - half, shaftY1 |-> cy, shaftX2 |-> cx + half, shaftY2 |-> cy]

arrowAnnotationFilter(annotation, canvasWidth, canvasHeight) ==
  LET cx == round(annotation.x * canvasWidth, 100)
      cy == round(annotation.y * canvasHeight, 100)
      size == orElse(annotation.arrowSize, 60)
      color == toFFmpegColor(orElse(annotation.arrowColor, <<"#", "3", "4", "B", "2", "7", "B">>))
      direction == orElse(annotation.arrowDirection, "right")
      c == getArrowCoords(direction, cx, cy, size)
      thickness == max(3, round(size, 15))
      dx == abs(c.shaftX2 - c.shaftX1)
      dy == abs(c.shaftY2 - c.shaftY1)
      shaftW == IF dx # 0 THEN dx ELSE thickness
      shaftH == IF dy # 0 THEN dy ELSE thickness
      shaftX == min(c.shaftX1, c.shaftX2)
      shaftY == min(c.shaftY1, c.shaftY2)
  IN "drawbox=x=" \o ToString(shaftX) \o ":y=" \o ToString(shaftY) \o ":w=" \o ToString(shaftW)
     \o ":h=" \o ToString(shaftH) \o ":color=" \o color \o ":t=fill:" \o enableExpr(annotation)

\* the filters array built by the loop of generateAnnotationFilters
RECURSIVE annotationFilterList(_, _, _)
annotationFilterList(annotations, canvasWidth, canvasHeight) ==
  IF annotations = <<>> THEN <<>>
  ELSE LET ann == Head(annotations)
           one == CASE ann.type = "text" ->
                         IF ann.text # <<>>
                         THEN <<textAnnotationFilter(ann, canvasWidth, canvasHeight)>>
                         ELSE <<>>
                    [] ann.type = "arrow" -> <<arrowAnnotationFilter(ann, canvasWidth, canvasHeight)>>
                    [] OTHER -> <<>>
       IN one \o annotationFilterList(Tail(annotations), canvasWidth, canvasHeight)

generateAnnotationFilters(annotations, canvasWidth, canvasHeight) ==
  IF Len(annotations) = 0 THEN ""
  ELSE join(annotationFilterList(annotations, canvasWidth, canvasHeight), ",")

(***************************************************************************)
(* Background generator (background.ts)                                    *)
(***************************************************************************)
padPixels(padding, videoWidth, videoHeight) ==
  round(padding * min(videoWidth, videoHeight), 100)

\* the scale-down of the foreground, shared by the three backdrop kinds
foregroundFilter(videoWidth, videoHeight, padding) ==
  LET padPx == padPixels(padding, videoWidth, videoHeight)
      innerW == videoWidth - padPx * 2
      innerH == videoHeight - padPx * 2
  IN "[0:v]scale=" \o ToString(innerW) \o ":" \o ToString(innerH) \o ":flags=lanczos[vid]"

\* the rounded-corner mask (when borderRadius > 0) and the overlay
overlayFilters(videoWidth, videoHeight, padding, borderRadius) ==
  LET padPx == ToString(padPixels(padding, videoWidth, videoHeight))
      r == ToString(borderRadius)
  IN IF borderRadius > 0
     THEN << "[vid]format=yuva420p,geq=lum='lum(X,Y)':cb='cb(X,Y)':cr='cr(X,Y)':"
             \o "a='if(gt(pow(min(X,W-X)-" \o r \o ",2)+pow(min(Y,H-Y)-" \o r \o ",2),pow(" \o r
             \o ",2))*lt(min(X,W-X)," \o r \o ")*lt(min(Y,H-Y)," \o r \o "),0,255)'[rounded]",
             "[bg][rounded]overlay=" \o padPx \o ":" \o padPx \o ":format=auto" >>
     ELSE << "[bg][vid]overlay=" \o padPx \o ":" \o padPx \o ":format=auto" >>

colorBackgroundFilter(color, videoWidth, videoHeight, padding, borderRadius) ==
  LET ffColor == IF color # <<>> /\ color[1] = "#" THEN "0x" \o Str(Tail(color)) ELSE Str(color)
  IN join(<< foregroundFilter(videoWidth, videoHeight, padding),
             "color=c=" \o ffColor \o ":s=" \o ToString(videoWidth) \o "x" \o ToString(videoHeight)
             \o ":d=1[bg]" >>
          \o overlayFilters(videoWidth, videoHeight, padding, borderRadius), "; ")

blurBackgroundFilter(blurRadius, videoWidth, videoHeight, padding, borderRadius) ==
  join(<< "[0:v]scale=" \o ToString(videoWidth) \o ":" \o ToString(videoHeight)
          \o ":flags=lanczos,boxblur=" \o ToString(blurRadius) \o ":" \o ToString(blurRadius) \o "[bg]",
          foregroundFilter(videoWidth, videoHeight, padding) >>
       \o overlayFilters(videoWidth, videoHeight, padding, borderRadius), "; ")

imageBackgroundFilter(videoWidth, videoHeight, padding, borderRadius) ==
  join(<< "[1:v]scale=" \o ToString(videoWidth) \o ":" \o ToString(videoHeight)
          \o ":flags=lanczos:force_original_aspect_ratio=increase,crop=" \o ToString(videoWidth)
          \o ":" \o ToString(videoHeight) \o "[bg]",
          foregroundFilter(videoWidth, videoHeight, padding) >>
       \o overlayFilters(videoWidth, videoHeight, padding, borderRadius), "; ")

generateBackgroundFilter(bg, videoWidth, videoHeight) ==
  LET padding == orElse(bg.padding, 0)
      borderRadius == orElse(bg.borderRadius, 0)
      noop == "scale=" \o ToString(videoWidth) \o ":" \o ToString(videoHeight)
  IN IF padding = 0 /\ borderRadius = 0 THEN noop
     ELSE CASE bg.type = "color" ->
                 colorBackgroundFilter(orElse(bg.color, <<"#", "0", "0", "0", "0", "0", "0">>), videoWidth, videoHeight,
                                       padding, borderRadius)
            [] bg.type = "blur" ->
                 blurBackgroundFilter(orElse(bg.blurRadius, 20), videoWidth, videoHeight,
                                      padding, borderRadius)
            [] bg.type = "image" ->
                 imageBackgroundFilter(videoWidth, videoHeight, padding, borderRadius)
            [] bg.type = "gradient" ->
                 colorBackgroundFilter(<<"#", "1", "a", "1", "a", "2", "e">>, videoWidth, videoHeight, padding, borderRadius)
            [] OTHER -> noop

(***************************************************************************)
(* Pipeline planner (pipeline.ts)                                          *)
(***************************************************************************)
intermediateOutput(finalPath, stepIndex) ==
  LET dot == lastIndexOf(finalPath, ".")
      ext == substringFrom(finalPath, dot)
      base == substring(finalPath, 0, dot)
  IN Str(base) \o "_step" \o ToString(stepIndex) \o Str(ext)

needsTrim(cfg) == cfg.trim # None /\ Len(cfg.trim[1]) > 0

needsZoom(cfg) == cfg.zoom # None /\ Len(cfg.zoom[1].regions) > 0

\* variant: any crop object counts, full frame included
needsCrop_anyCrop(cfg) == cfg.crop # None

needsCrop(cfg) ==
  /\ cfg.crop # None
  /\ LET c == cfg.crop[1]
     IN c.x[1] # 0 \/ c.y[1] # 0 \/ c.width[1] # c.width[2] \/ c.height[1] # c.height[2]

\* variant: keyed on borderRadius instead of padding
needsBackground_radiusOnly(cfg) ==
  cfg.background # None /\ orElse(cfg.background[1].borderRadius, 0) > 0

needsBackground(cfg) == cfg.background # None /\ orElse(cfg.background[1].padding, 0) > 0

needsAnnotations(cfg) == cfg.annotations # None /\ Len(cfg.annotations[1]) > 0

encodeArgs(audioCodec) ==
  <<"-c:v", "libx264", "-preset", "fast", "-crf", "18", "-c:a", audioCodec>>

\* the 'Trim video' step of the fast path
\* variant: '-t' (a duration) in place of '-to'
seekTrimStep_duration(seg, input, output) ==
  [description |-> "Trim video",
   args |-> <<"ffmpeg", "-y", "-ss", toFixed3(seg.startSec), "-t", toFixed3(seg.endSec),
              "-i", input>> \o encodeArgs("aac") \o <<output>>]

seekTrimStep(seg, input, output) ==
  [description |-> "Trim video",
   args |-> <<"ffmpeg", "-y", "-ss", toFixed3(seg.startSec), "-to", toFixed3(seg.endSec),
              "-i", input>> \o encodeArgs("aac") \o <<output>>]

\* the 'Trim video (remove cut sections)' step
concatTrimStep(filter, input, output) ==
  [description |-> "Trim video (remove cut sections)",
   args |-> <<"ffmpeg", "-y", "-i", input, "-filter_complex", filter,
              "-map", "[outv]", "-map", "[outa]">> \o encodeArgs("aac") \o <<output>>]

vfStep(description, vfParts, input, output) ==
  [description |-> description,
   args |-> <<"ffmpeg", "-y", "-i", input, "-vf", join(vfParts, ",")>>
            \o encodeArgs("copy") \o <<output>>]

backgroundStep(bg, bgFilter, input, output) ==
  [description |-> "Apply background/wallpaper",
   args |-> <<"ffmpeg", "-y", "-i", input>>
            \o (IF bg.type = "image" /\ bg.imagePath # None /\ bg.imagePath[1] # <<>>
                THEN <<"-i", Str(bg.imagePath[1])>> ELSE <<>>)
            \o <<"-filter_complex", bgFilter>> \o encodeArgs("copy") \o <<output>>]

copyStep(input, output) ==
  [description |-> "Copy (no effects)",
   args |-> <<"ffmpeg", "-y", "-i", input, "-c", "copy", output>>]

\* `segments.length > 1 ? intermediateOutput(config.outputPath, stepIndex++) : config.outputPath`
\* variant: the concat trim writes the final path
trimOutputOf_final(cfg, segments) == Str(cfg.outputPath)

trimOutputOf(cfg, segments) ==
  IF Len(segments) > 1 THEN intermediateOutput(cfg.outputPath, 0) ELSE Str(cfg.outputPath)

isOnlyStep(cfg) ==
  ~needsZoom(cfg) /\ ~needsCrop(cfg) /\ ~needsBackground(cfg) /\ ~needsAnnotations(cfg)

\* currentInput after the trim block: `currentInput = trimOutput` runs only
\* inside `if (segments.length > 1)`
\* variant: currentInput is never advanced past the trim step
inputAfterTrim_stale(cfg, segments) == Str(cfg.inputPath)

inputAfterTrim(cfg, segments) ==
  IF Len(segments) > 1 THEN trimOutputOf(cfg, segments) ELSE Str(cfg.inputPath)

\* Step 1 of buildPipeline: the state after the `if (needsTrim)` block;
\* returned = TRUE is the early `return steps`
trimStage(cfg) ==
  LET input == Str(cfg.inputPath)
      skip == [steps |-> <<>>, currentInput |-> input, stepIndex |-> 0, returned |-> FALSE]
  IN IF ~needsTrim(cfg) THEN skip
     ELSE LET segments == computeKeptSegments(cfg.trim[1], cfg.video.durationMs)
              trimOutput == trimOutputOf(cfg, segments)
              stepIndex == IF Len(segments) > 1 THEN 1 ELSE 0
          IN IF Len(segments) = 1 /\ isOnlyStep(cfg)
             THEN [steps |-> <<seekTrimStep(segments[1], input, Str(cfg.outputPath))>>,
                   currentInput |-> input, stepIndex |-> stepIndex, returned |-> TRUE]
             ELSE IF Len(segments) > 1
             THEN [steps |-> <<concatTrimStep(generateTrimFilter(cfg.trim[1], cfg.video.durationMs),
                                              input, trimOutput)>>,
                   currentInput |-> inputAfterTrim(cfg, segments), stepIndex |-> stepIndex,
                   returned |-> FALSE]
             ELSE [skip EXCEPT !.stepIndex = stepIndex]

canvasWidth(cfg) == orElse(cfg.outputWidth, cfg.video.width)

canvasHeight(cfg) == orElse(cfg.outputHeight, cfg.video.height)

cropPart(cfg) ==
  IF needsCrop(cfg)
  THEN <<generateCropFilter(cfg.crop[1], cfg.video.width, cfg.video.height)>>
  ELSE <<>>

zoomPart(cfg) ==
  IF needsZoom(cfg)
  THEN <<generateZoomFilter(cfg.zoom[1].regions, cfg.video.width, cfg.video.height)>>
  ELSE <<>>

\* variant: the annotation filter is pushed whenever annotations are present
annotationPart_unchecked(cfg) ==
  IF needsAnnotations(cfg)
  THEN <<generateAnnotationFilters(cfg.annotations[1], canvasWidth(cfg), canvasHeight(cfg))>>
  ELSE <<>>

annotationPart(cfg) ==
  LET annFilter == IF needsAnnotations(cfg)
                   THEN generateAnnotationFilters(cfg.annotations[1], canvasWidth(cfg),
                                                  canvasHeight(cfg))
                   ELSE ""
  IN IF annFilter # "" THEN <<annFilter>> ELSE <<>>

\* Step 2 of buildPipeline: vfParts, pushed in the order crop, zoom, annotations
\* variant: zoom pushed before crop
mergeStage_zoomFirst(cfg) == zoomPart(cfg) \o cropPart(cfg) \o annotationPart(cfg)

mergeStage(cfg) == cropPart(cfg) \o zoomPart(cfg) \o annotationPart(cfg)

\* currentInput when the background step is built: `currentInput = vfOutput`
\* runs only inside `if (vfParts.length > 0)`
\* variant: the background step keeps reading the pre-flush input
inputAfterFlush_stale(vfParts, currentInput, vfOutput) == currentInput

inputAfterFlush(vfParts, currentInput, vfOutput) ==
  IF Len(vfParts) > 0 THEN vfOutput ELSE currentInput

\* Step 3 of buildPipeline: the steps pushed after the trim stage
finalStage(cfg, t, vfParts) ==
  LET output == Str(cfg.outputPath)
  IN IF needsBackground(cfg)
     THEN LET bg == cfg.background[1]
              bgFilter == generateBackgroundFilter(bg, canvasWidth(cfg), canvasHeight(cfg))
              vfOutput == intermediateOutput(cfg.outputPath, t.stepIndex)
              flush == IF Len(vfParts) > 0
                       THEN <<vfStep("Apply zoom/crop/annotations", vfParts, t.currentInput, vfOutput)>>
                       ELSE <<>>
              bgInput == inputAfterFlush(vfParts, t.currentInput, vfOutput)
          IN t.steps \o flush \o <<backgroundStep(bg, bgFilter, bgInput, output)>>
     ELSE IF Len(vfParts) > 0
     THEN Append(t.steps, vfStep("Apply video effects (zoom/crop/annotations)", vfParts,
                                 t.currentInput, output))
     ELSE IF Len(t.steps) = 0
     THEN <<copyStep(t.currentInput, output)>>
     ELSE t.steps

buildPipeline(cfg) ==
  LET t == trimStage(cfg)
  IN IF t.returned THEN t.steps ELSE finalStage(cfg, t, mergeStage(cfg))

(***************************************************************************)
(* Inputs                                                                  *)
(***************************************************************************)
RECURSIVE SeqsUpTo(_, _)
SeqsUpTo(S, n) ==
  IF n = 0 THEN {<<>>}
  ELSE LET shorter == SeqsUpTo(S, n - 1)
       IN shorter \cup {Append(s, e) : s \in {q \in shorter : Len(q) = n - 1}, e \in S}

InputPath == <<"i", "n", ".", "m", "p", "4">>

\* outputPath with the optional outputWidth / outputHeight
Outputs ==
  {[path |-> <<"o", "u", "t", ".", "m", "p", "4">>, w |-> None, h |-> None],
   [path |-> <<"c", "l", "i", "p", "s", "/", "f", "i", "n", "a", "l">>, w |-> Some(1280), h |-> Some(720)]}

Video == [width |-> 1920, height |-> 1080, durationMs |-> 60000, fps |-> 30]

TrimRegions ==
  {[id |-> "t1", startMs |-> 0, endMs |-> 20000],
   [id |-> "t2", startMs |-> 20000, endMs |-> 40000],
   [id |-> "t3", startMs |-> 0, endMs |-> 60000]}

TrimOpts == {None} \cup {Some(s) : s \in SeqsUpTo(TrimRegions, MaxTrim)}

ZoomRegions ==
  {[id |-> "z1", startMs |-> 1000, endMs |-> 3000, depth |-> 3,
    focus |-> [cx |-> <<1, 2>>, cy |-> <<3, 50>>]],
   [id |-> "z2", startMs |-> 2000, endMs |-> 5000, depth |-> 6,
    focus |-> [cx |-> <<3, 4>>, cy |-> <<7, 20>>]]}

ZoomOpts == {None} \cup {Some([regions |-> s]) : s \in SeqsUpTo(ZoomRegions, MaxZoom)}

CropOpts ==
  {None,
   Some([x |-> <<0, 1>>, y |-> <<0, 1>>, width |-> <<1, 1>>, height |-> <<1, 1>>]),
   Some([x |-> <<0, 1>>, y |-> <<1, 20>>, width |-> <<1, 1>>, height |-> <<19, 20>>]),
   Some([x |-> <<1, 8>>, y |-> <<0, 1>>, width |-> <<3, 4>>, height |-> <<1, 1>>])}

BackgroundOpts ==
  {None,
   Some([type |-> "color", color |-> None, imagePath |-> None, blurRadius |-> None,
         padding |-> None, borderRadius |-> None]),
   Some([type |-> "color", color |-> Some(<<"#", "1", "a", "1", "a", "2", "e">>), imagePath |-> None, blurRadius |-> None,
         padding |-> Some(10), borderRadius |-> None]),
   Some([type |-> "image", color |-> None, imagePath |-> Some(<<"b", "g", ".", "p", "n", "g">>), blurRadius |-> None,
         padding |-> Some(10), borderRadius |-> Some(12)]),
   Some([type |-> "blur", color |-> None, imagePath |-> None, blurRadius |-> Some(15),
         padding |-> Some(0), borderRadius |-> Some(12)])}

Annotations ==
  {[id |-> "a1", startMs |-> 0, endMs |-> 3000, type |-> "text", text |-> <<"H", "i", ":", " ", "i", "t", "'", "s">>, x |-> 50, y |-> 10,
    fontSize |-> Some(48), fontColor |-> None, fontFamily |-> None, backgroundColor |-> None,
    arrowDirection |-> None, arrowColor |-> None, arrowSize |-> None],
   [id |-> "a2", startMs |-> 1000, endMs |-> 2000, type |-> "text", text |-> <<>>, x |-> 50, y |-> 50,
    fontSize |-> None, fontColor |-> None, fontFamily |-> None, backgroundColor |-> None,
    arrowDirection |-> None, arrowColor |-> None, arrowSize |-> None],
   [id |-> "a3", startMs |-> 500, endMs |-> 4500, type |-> "arrow", text |-> <<>>, x |-> 25, y |-> 75,
    fontSize |-> None, fontColor |-> None, fontFamily |-> None, backgroundColor |-> None,
    arrowDirection |-> Some("up-left"), arrowColor |-> None, arrowSize |-> None],
   \* a type outside AnnotationType: the config is parsed JSON, nothing validates it
   [id |-> "a4", startMs |-> 0, endMs |-> 1000, type |-> "blur", text |-> <<"H", "i">>, x |-> 50, y |-> 50,
    fontSize |-> None, fontColor |-> None, fontFamily |-> None, backgroundColor |-> None,
    arrowDirection |-> None, arrowColor |-> None, arrowSize |-> None]}

AnnotationOpts == {None} \cup {Some(s) : s \in SeqsUpTo(Annotations, MaxAnn)}

Config(o, t, z, c, b, a) ==
  [inputPath |-> InputPath, outputPath |-> o.path, video |-> Video, trim |-> t, zoom |-> z,
   crop |-> c, background |-> b, annotations |-> a, outputWidth |-> o.w, outputHeight |-> o.h]

(***************************************************************************)
(* The planner as a state machine: a caller holds a config and calls       *)
(* buildPipeline on it (any number of times)                               *)
(***************************************************************************)
Init ==
  /\ \E o \in Outputs, t \in TrimOpts, z \in ZoomOpts, c \in CropOpts,
        b \in BackgroundOpts, a \in AnnotationOpts :
        config = Config(o, t, z, c, b, a)
  /\ steps = <<>>
  /\ pc = "ready"
  /\ call = None
  /\ result = None

BuildPipeline ==
  /\ steps' = buildPipeline(config)
  /\ pc' = "planned"
  /\ UNCHANGED <<config, call, result>>

Next == BuildPipeline

Spec == Init /\ [][Next]_vars

(***************************************************************************)
(* Reading a plan                                                          *)
(***************************************************************************)
planned == pc = "planned"

hasFlag(step, flag) == \E i \in 1..Len(step.args) : step.args[i] = flag

\* the argument that follows the first occurrence of flag ("" when there is none)
argAfter(step, flag) ==
  LET hits == {j \in 1..(Len(step.args) - 1) : step.args[j] = flag}
  IN IF hits = {} THEN ""
     ELSE step.args[(CHOOSE j \in hits : \A k \in hits : j <= k) + 1]

inputOf(step) == argAfter(step, "-i")

outputOf(step) == step.args[Len(step.args)]

lastStep == steps[Len(steps)]

\* the effects a config enables, read off the config
TrimOn == config.trim # None /\ config.trim[1] # <<>>

ZoomOn == config.zoom # None /\ config.zoom[1].regions # <<>>

FullFrame(c) == c.x[1] = 0 /\ c.y[1] = 0 /\ c.width[1] = c.width[2] /\ c.height[1] = c.height[2]

CropOn == config.crop # None /\ ~FullFrame(config.crop[1])

PaddingOf(b) == IF b.padding = None THEN 0 ELSE b.padding[1]

BackgroundOn == config.background # None /\ PaddingOf(config.background[1]) > 0

AnnotationsOn == config.annotations # None /\ config.annotations[1] # <<>>

AllDisabled == ~TrimOn /\ ~ZoomOn /\ ~CropOn /\ ~BackgroundOn /\ ~AnnotationsOn

KeptSegments == computeKeptSegments(config.trim[1], config.video.durationMs)

StepPaths == {intermediateOutput(config.outputPath, n) : n \in 0..2}

(***************************************************************************)
(* C1: the last step of every plan writes config.outputPath.               *)
(***************************************************************************)
C1_LastStepWritesOutput ==
  planned => steps # <<>> /\ outputOf(lastStep) = Str(config.outputPath)

(***************************************************************************)
(* C2: the first step reads config.inputPath and every later step reads    *)
(* the output path of the step immediately before it.                      *)
(***************************************************************************)
C2_StepsChain ==
  planned =>
    /\ steps # <<>>
    /\ inputOf(steps[1]) = Str(config.inputPath)
    /\ \A k \in 2..Len(steps) : inputOf(steps[k]) = outputOf(steps[k - 1])

C2_Witness ==
  /\ planned
  /\ Len(steps) = 3
  /\ inputOf(steps[2]) # Str(config.inputPath)
  /\ inputOf(steps[3]) = outputOf(steps[2])

(***************************************************************************)
(* C3: an all-disabled config yields exactly one step, the stream copy     *)
(* from config.inputPath to config.outputPath, however often it is planned.*)
(***************************************************************************)
C3_AllDisabledIsCopy ==
  planned /\ AllDisabled =>
    steps = << [description |-> "Copy (no effects)",
                args |-> << "ffmpeg", "-y", "-i", Str(config.inputPath), "-c", "copy",
                            Str(config.outputPath) >>] >>

C3_Witness ==
  /\ planned
  /\ AllDisabled
  /\ config.crop # None
  /\ config.background # None
  /\ config.trim = Some(<<>>)
  /\ Len(steps) = 1
  /\ hasFlag(steps[1], "-c")

(***************************************************************************)
(* C4: a non-empty trim with exactly one kept segment and no other effect  *)
(* yields exactly one step, the seek-based trim from config.inputPath to   *)
(* config.outputPath.                                                      *)
(***************************************************************************)
C4_SeekTrimOnly ==
  planned /\ TrimOn /\ ~ZoomOn /\ ~CropOn /\ ~BackgroundOn /\ ~AnnotationsOn =>
    (Len(KeptSegments) = 1 =>
       /\ Len(steps) = 1
       /\ hasFlag(steps[1], "-ss")
       /\ hasFlag(steps[1], "-to")
       /\ argAfter(steps[1], "-ss") = toFixed3(KeptSegments[1].startSec)
       /\ argAfter(steps[1], "-to") = toFixed3(KeptSegments[1].endSec)
       /\ inputOf(steps[1]) = Str(config.inputPath)
       /\ outputOf(steps[1]) = Str(config.outputPath)
       /\ ~hasFlag(steps[1], "-vf")
       /\ ~hasFlag(steps[1], "-filter_complex"))

C4_Witness ==
  /\ planned
  /\ TrimOn /\ ~ZoomOn /\ ~CropOn /\ ~BackgroundOn /\ ~AnnotationsOn
  /\ Len(KeptSegments) = 1
  /\ KeptSegments[1].startSec > 0
  /\ Len(steps) = 1
  /\ hasFlag(steps[1], "-ss")

(***************************************************************************)
(* C5: with more than one kept segment the first step is the concat-based  *)
(* trim writing an intermediate path.  As stated: that path is the input   *)
(* of every step planned after it.                                         *)
(***************************************************************************)
ConcatTrimFirst ==
  /\ steps # <<>>
  /\ hasFlag(steps[1], "-filter_complex")
  /\ argAfter(steps[1], "-filter_complex")
       = generateTrimFilter(config.trim[1], config.video.durationMs)
  /\ inputOf(steps[1]) = Str(config.inputPath)
  /\ outputOf(steps[1]) \in StepPaths
  /\ outputOf(steps[1]) # Str(config.outputPath)

C5_EveryLaterStepReadsTrimOutput ==
  planned /\ TrimOn =>
    (Len(KeptSegments) > 1 =>
       /\ ConcatTrimFirst
       /\ \A k \in 2..Len(steps) : inputOf(steps[k]) = outputOf(steps[1]))

\* C5 as amended: the trim intermediate is the input of the step planned
\* immediately after the trim step; a step after that one reads the output
\* of its own predecessor.
C5_NextStepReadsTrimOutput ==
  planned /\ TrimOn =>
    (Len(KeptSegments) > 1 =>
       /\ ConcatTrimFirst
       /\ Len(steps) >= 2 => inputOf(steps[2]) = outputOf(steps[1])
       /\ \A k \in 3..Len(steps) : inputOf(steps[k]) = outputOf(steps[k - 1])
                                   /\ inputOf(steps[k]) # outputOf(steps[1]))

C5_Witness ==
  /\ planned
  /\ TrimOn
  /\ Len(KeptSegments) > 1
  /\ Len(steps) = 3
  /\ inputOf(steps[2]) = outputOf(steps[1])

(***************************************************************************)
(* C6: with exactly one kept segment and another effect enabled, some step *)
(* of the plan still restricts the output to that segment.                 *)
(***************************************************************************)
SegmentFilter(seg) ==
  "trim=start=" \o toFixed3(seg.startSec) \o ":end=" \o toFixed3(seg.endSec) \o ",setpts=PTS-STARTPTS"

RestrictsTo(step, seg) ==
  \/ /\ hasFlag(step, "-ss") /\ hasFlag(step, "-to")
     /\ argAfter(step, "-ss") = toFixed3(seg.startSec)
     /\ argAfter(step, "-to") = toFixed3(seg.endSec)
  \/ /\ hasFlag(step, "-filter_complex")
     /\ argAfter(step, "-filter_complex")
          = generateTrimFilter(config.trim[1], config.video.durationMs)
  \/ /\ hasFlag(step, "-vf")
     /\ argAfter(step, "-vf") \in
          { join(<<SegmentFilter(seg)>> \o mergeStage(config), ","),
            join(mergeStage(config) \o <<SegmentFilter(seg)>>, ",") }

C6_SingleSegmentTrimApplied ==
  planned /\ TrimOn /\ (ZoomOn \/ CropOn \/ BackgroundOn \/ AnnotationsOn) =>
    (Len(KeptSegments) = 1 =>
       \E k \in 1..Len(steps) : RestrictsTo(steps[k], KeptSegments[1]))

(***************************************************************************)
(* C7: a config whose only enabled effect is background with padding > 0   *)
(* yields exactly one step, the background pass from config.inputPath to   *)
(* config.outputPath, and no '_step' path appears in the plan.             *)
(***************************************************************************)
C7_BackgroundOnly ==
  planned /\ BackgroundOn /\ ~TrimOn /\ ~ZoomOn /\ ~CropOn /\ ~AnnotationsOn =>
    /\ Len(steps) = 1
    /\ steps[1].description = "Apply background/wallpaper"
    /\ hasFlag(steps[1], "-filter_complex")
    /\ argAfter(steps[1], "-filter_complex")
         = generateBackgroundFilter(config.background[1], canvasWidth(config), canvasHeight(config))
    /\ inputOf(steps[1]) = Str(config.inputPath)
    /\ outputOf(steps[1]) = Str(config.outputPath)
    /\ \A i \in 1..Len(steps[1].args) : steps[1].args[i] \notin StepPaths

C7_Witness ==
  /\ planned
  /\ BackgroundOn /\ ~TrimOn /\ ~ZoomOn /\ ~CropOn /\ ~AnnotationsOn
  /\ config.background[1].padding = Some(10)
  /\ config.background[1].borderRadius = None
  /\ Len(steps) = 1
  /\ hasFlag(steps[1], "-filter_complex")

(***************************************************************************)
(* C8: when background is needed and a crop/zoom/annotation filter was     *)
(* produced, the plan ends with the '-vf' step writing an intermediate     *)
(* path followed by the background step reading that path and writing      *)
(* config.outputPath.                                                      *)
(***************************************************************************)
VfProduced ==
  \/ CropOn
  \/ ZoomOn
  \/ /\ AnnotationsOn
     /\ generateAnnotationFilters(config.annotations[1], canvasWidth(config), canvasHeight(config)) # ""

C8_FlushThenBackground ==
  planned /\ BackgroundOn /\ VfProduced =>
    /\ Len(steps) >= 2
    /\ LET vf == steps[Len(steps) - 1]
           bg == steps[Len(steps)]
       IN /\ hasFlag(vf, "-vf")
          /\ ~hasFlag(vf, "-filter_complex")
          /\ outputOf(vf) \in StepPaths
          /\ outputOf(vf) # Str(config.outputPath)
          /\ hasFlag(bg, "-filter_complex")
          /\ ~hasFlag(bg, "-vf")
          /\ argAfter(bg, "-filter_complex")
               = generateBackgroundFilter(config.background[1], canvasWidth(config),
                                          canvasHeight(config))
          /\ inputOf(bg) = outputOf(vf)
          /\ outputOf(bg) = Str(config.outputPath)
    /\ \A k \in 1..(Len(steps) - 2) : ~hasFlag(steps[k], "-vf")

C8_Witness ==
  /\ planned
  /\ BackgroundOn
  /\ VfProduced
  /\ Len(steps) = 3
  /\ hasFlag(steps[2], "-vf")
  /\ inputOf(steps[3]) = outputOf(steps[2])

(***************************************************************************)
(* C9: the enabled crop, zoom and annotation filters sit in one single     *)
(* '-vf' argument, joined in the order crop, zoom, annotation; no plan has *)
(* two '-vf' steps.                                                        *)
(***************************************************************************)
ExpectedChain ==
  (IF CropOn
   THEN <<generateCropFilter(config.crop[1], config.video.width, config.video.height)>>
   ELSE <<>>)
  \o (IF ZoomOn
      THEN <<generateZoomFilter(config.zoom[1].regions, config.video.width, config.video.height)>>
      ELSE <<>>)
  \o (IF AnnotationsOn
         /\ generateAnnotationFilters(config.annotations[1], canvasWidth(config),
                                      canvasHeight(config)) # ""
      THEN <<generateAnnotationFilters(config.annotations[1], canvasWidth(config),
                                       canvasHeight(config))>>
      ELSE <<>>)

VfSteps == {k \in 1..Len(steps) : hasFlag(steps[k], "-vf")}

C9_SingleOrderedVf ==
  planned =>
    /\ Cardinality(VfSteps) <= 1
    /\ \A k \in VfSteps :
         /\ Cardinality({i \in 1..Len(steps[k].args) : steps[k].args[i] = "-vf"}) = 1
         /\ argAfter(steps[k], "-vf") = join(ExpectedChain, ",")
    /\ (ExpectedChain # <<>>) = (VfSteps # {})

C9_Witness ==
  /\ planned
  /\ Len(ExpectedChain) = 3
  /\ Cardinality(VfSteps) = 1

(***************************************************************************)
(* C10: the k-th intermediate path of a plan is config.outputPath with     *)
(* '_step<k-1>' inserted before the extension; intermediates are pairwise  *)
(* distinct and differ from config.outputPath.                             *)
(***************************************************************************)
\* the extension of a path: from the last '.' of its last component on,
\* empty when that component has no '.'
ExtensionStart(path) ==
  LET slash == lastIndexOf(path, "/")
      dot == lastIndexOf(path, ".")
  IN IF dot > slash THEN dot ELSE Len(path)

StepSuffixed(path, n) ==
  Str(SubSeq(path, 1, ExtensionStart(path))) \o "_step" \o ToString(n)
  \o Str(SubSeq(path, ExtensionStart(path) + 1, Len(path)))

C10_IntermediateNaming ==
  planned =>
    /\ \A k \in 1..(Len(steps) - 1) :
         /\ outputOf(steps[k]) = StepSuffixed(config.outputPath, k - 1)
         /\ outputOf(steps[k]) # Str(config.outputPath)
    /\ \A j, k \in 1..(Len(steps) - 1) : j # k => outputOf(steps[j]) # outputOf(steps[k])

(***************************************************************************)
(* The trim planner as a state machine: a caller holds a list of cut       *)
(* regions and a clip duration and calls the exported functions of trim.ts *)
(* on them.  No function of trim.ts has a throw statement: every call      *)
(* returns, which result.threw = FALSE records.                            *)
(***************************************************************************)
TimeUnit == 1000

CutTimes == {k * TimeUnit : k \in 0..4}

CutRegions ==
  {r \in [id : {"t"}, startMs : CutTimes, endMs : CutTimes] : r.startMs <= r.endMs}

TrimInputs ==
  {[trimRegions |-> l, totalDurationMs |-> d] :
     l \in SeqsUpTo(CutRegions, MaxCuts), d \in {2 * TimeUnit, 3 * TimeUnit, 4 * TimeUnit}}
  \cup {[trimRegions |-> <<[id |-> "t1", startMs |-> 5000, endMs |-> 10000]>>,
         totalDurationMs |-> 60000]}

InitTrim ==
  /\ call \in TrimInputs
  /\ result = None
  /\ pc = "ready"
  /\ config = None
  /\ steps = <<>>

Returned(v) == [threw |-> FALSE, value |-> v]

ComputeKeptSegments ==
  /\ result' = Returned(computeKeptSegments(call.trimRegions, call.totalDurationMs))
  /\ pc' = "keptSegments"
  /\ UNCHANGED <<call, config, steps>>

ComputeEffectiveDuration ==
  /\ result' = Returned(computeEffectiveDuration(call.trimRegions, call.totalDurationMs))
  /\ pc' = "effectiveDuration"
  /\ UNCHANGED <<call, config, steps>>

GenerateTrimFilter ==
  /\ \E hasAudio \in BOOLEAN :
       result' = Returned(generateTrimFilterAudio(call.trimRegions, call.totalDurationMs, hasAudio))
  /\ pc' = "trimFilter"
  /\ UNCHANGED <<call, config, steps>>

BuildTrimCommand ==
  /\ \E hasAudio \in BOOLEAN :
       result' = Returned(buildTrimCommand("in.mp4", "out.mp4", call.trimRegions,
                                           call.totalDurationMs, hasAudio))
  /\ pc' = "trimCommand"
  /\ UNCHANGED <<call, config, steps>>

NextTrim ==
  \/ ComputeKeptSegments
  \/ ComputeEffectiveDuration
  \/ GenerateTrimFilter
  \/ BuildTrimCommand

SpecTrim == InitTrim /\ [][NextTrim]_vars

(***************************************************************************)
(* Reading cut regions and kept segments                                   *)
(***************************************************************************)
Cuts == call.trimRegions

ProperCut(r) == r.startMs < r.endMs

CutsDisjointInside ==
  /\ \A i \in 1..Len(Cuts) :
       ProperCut(Cuts[i]) /\ 0 <= Cuts[i].startMs /\ Cuts[i].endMs <= call.totalDurationMs
  /\ \A i, j \in 1..Len(Cuts) :
       i # j => Cuts[i].endMs <= Cuts[j].startMs \/ Cuts[j].endMs <= Cuts[i].startMs

\* the clip as unit spans [u, u + TimeUnit)
ClipUnits == {k * TimeUnit : k \in 0..((call.totalDurationMs \div TimeUnit) - 1)}

UnitCut(u) == \E i \in 1..Len(Cuts) : Cuts[i].startMs <= u /\ u + TimeUnit <= Cuts[i].endMs

UnitKept(segs, u) == \E i \in 1..Len(segs) : segs[i].startSec <= u /\ u + TimeUnit <= segs[i].endSec

C11_WitnessExample ==
  /\ pc = "keptSegments"
  /\ call.totalDurationMs = 60000
  /\ result.value = <<[startSec |-> 0, endSec |-> 5000], [startSec |-> 10000, endSec |-> 60000]>>

(***************************************************************************)
(* C12: computeEffectiveDuration never grows when a cut region with        *)
(* startMs <= endMs is appended, and equals the total duration minus the   *)
(* sum of all region lengths, overlapping regions each counted in full.    *)
(***************************************************************************)
RECURSIVE CutLengthSum(_)
CutLengthSum(n) ==
  IF n = 0 THEN 0 ELSE CutLengthSum(n - 1) + (Cuts[n].endMs - Cuts[n].startMs)

C12_EffectiveDurationMonotone ==
  pc = "effectiveDuration" =>
    /\ result.value = call.totalDurationMs - CutLengthSum(Len(Cuts))
    /\ Len(Cuts) > 0 =>
         result.value <= computeEffectiveDuration(SubSeq(Cuts, 1, Len(Cuts) - 1),
                                                  call.totalDurationMs)

C12_Witness ==
  /\ pc = "effectiveDuration"
  /\ Len(Cuts) = 2
  /\ Cuts[1] = Cuts[2]
  /\ Cuts[1].startMs = 0
  /\ Cuts[1].endMs > call.totalDurationMs
  /\ result.value < 0

(***************************************************************************)
(* C13: when the cut regions leave no kept segment, building the trim      *)
(* filter or the trim command signals an error; no empty filter string     *)
(* and no command with an empty -filter_complex argument is returned.      *)
(***************************************************************************)
NothingKept == computeKeptSegments(call.trimRegions, call.totalDurationMs) = <<>>

C13_NothingKeptIsError ==
  /\ (pc = "trimFilter" /\ NothingKept) => (result.threw /\ result.value # "")
  /\ (pc = "trimCommand" /\ NothingKept) =>
       (result.threw /\ argAfter([args |-> result.value], "-filter_complex") # "")

(***************************************************************************)
(* The zoom envelope as a state machine: a caller holds a list of zoom     *)
(* regions, a time and a frame size, and calls the functions of zoom.ts.   *)
(* Times lie on a grid of TimeStep ms, which divides TRANSITION_MS, so     *)
(* every strength is a fraction with a small denominator.                  *)
(***************************************************************************)
TimeStep == 40

ZoomTimes == {k * TimeStep : k \in 0..MaxTicks}

ZoomList ==
  {[id |-> "z1", startMs |-> 400, endMs |-> 800, depth |-> 3,
    focus |-> [cx |-> <<1, 2>>, cy |-> <<3, 50>>]],
   [id |-> "z2", startMs |-> 640, endMs |-> 1200, depth |-> 6,
    focus |-> [cx |-> <<3, 4>>, cy |-> <<7, 20>>]],
   [id |-> "z3", startMs |-> 160, endMs |-> 240, depth |-> 1,
    focus |-> [cx |-> <<0, 1>>, cy |-> <<1, 1>>]],
   [id |-> "z4", startMs |-> 1600, endMs |-> 1800, depth |-> 5,
    focus |-> [cx |-> <<1, 4>>, cy |-> <<1, 2>>]]}

Frames == {[width |-> 1920, height |-> 1080], [width |-> 641, height |-> 479]}

ZoomCalls ==
  {[regions |-> l, timeMs |-> t, frame |-> f] :
     l \in SeqsUpTo(ZoomList, MaxRegions), t \in ZoomTimes, f \in Frames}

InitZoom ==
  /\ call \in ZoomCalls
  /\ result = None
  /\ pc = "ready"
  /\ config = None
  /\ steps = <<>>

ComputeRegionStrength ==
  /\ \E i \in 1..Len(call.regions) :
       result' = [index |-> i, value |-> computeRegionStrength(call.regions[i], call.timeMs)]
  /\ pc' = "strength"
  /\ UNCHANGED <<call, config, steps>>

FindDominantRegion ==
  /\ result' = findDominantRegion(call.regions, call.timeMs)
  /\ pc' = "dominant"
  /\ UNCHANGED <<call, config, steps>>

EvaluateCrop ==
  /\ result' = cropAt(call.regions, call.frame.width, call.frame.height, call.timeMs)
  /\ pc' = "cropAt"
  /\ UNCHANGED <<call, config, steps>>

NextZoom ==
  \/ ComputeRegionStrength
  \/ FindDominantRegion
  \/ EvaluateCrop

SpecZoom == InitZoom /\ [][NextZoom]_vars

(***************************************************************************)
(* C14: outside [startMs - 320, endMs + 320] the strength of a region is 0 *)
(***************************************************************************)
C14_ZeroOutsideWindow ==
  pc = "strength" =>
    LET r == call.regions[result.index]
    IN (call.timeMs < r.startMs - 320 \/ call.timeMs > r.endMs + 320)
         => result.value = <<0, 1>>

C14_Witness ==
  /\ pc = "strength"
  /\ call.timeMs = call.regions[result.index].startMs - 320 - TimeStep
  /\ result.value = <<0, 1>>

C14_WitnessAfter ==
  /\ pc = "strength"
  /\ call.timeMs = call.regions[result.index].endMs + 320 + TimeStep
  /\ result.value = <<0, 1>>

(***************************************************************************)
(* C15: for a region with startMs < endMs the strength is exactly 1 at     *)
(* every time of [startMs, endMs], both endpoints included.                *)
(***************************************************************************)
C15_OneWhileActive ==
  pc = "strength" =>
    LET r == call.regions[result.index]
    IN (r.startMs < r.endMs /\ r.startMs <= call.timeMs /\ call.timeMs <= r.endMs)
         => result.value = <<1, 1>>

C15_Witness ==
  /\ pc = "strength"
  /\ call.timeMs = call.regions[result.index].startMs
  /\ result.value = <<1, 1>>

C15_WitnessEnd ==
  /\ pc = "strength"
  /\ call.timeMs = call.regions[result.index].endMs
  /\ result.value = <<1, 1>>

(***************************************************************************)
(* C16: findDominantRegion returns the region of strictly highest          *)
(* strength, the first of the input list among equals, and no region with  *)
(* strength 0 when every region has strength 0.                            *)
(***************************************************************************)
StrengthOf(i) == computeRegionStrength(call.regions[i], call.timeMs)

C16_DominantIsFirstStrongest ==
  pc = "dominant" =>
    IF \A i \in 1..Len(call.regions) : StrengthOf(i) = <<0, 1>>
    THEN result = [region |-> None, strength |-> <<0, 1>>]
    ELSE \E i \in 1..Len(call.regions) :
           /\ \A j \in 1..Len(call.regions) : ~fLess(StrengthOf(i), StrengthOf(j))
           /\ \A j \in 1..(i - 1) : fLess(StrengthOf(j), StrengthOf(i))
           /\ result = [region |-> Some(call.regions[i]), strength |-> StrengthOf(i)]

C16_Witness ==
  /\ pc = "dominant"
  /\ Len(call.regions) = 2
  /\ call.regions[1].startMs > call.regions[2].startMs
  /\ StrengthOf(1) = StrengthOf(2)
  /\ result.region = Some(call.regions[1])

C16_WitnessNone ==
  /\ pc = "dominant"
  /\ Len(call.regions) = 2
  /\ result.region = None

(***************************************************************************)
(* The static zoom filter as a state machine: one call of                  *)
(* generateStaticZoomFilter with a focus, a depth and a frame size.        *)
(***************************************************************************)
FocusValues == {<<-1, 2>>, <<0, 1>>, <<3, 50>>, <<1, 2>>, <<9, 10>>, <<1, 1>>, <<3, 2>>}

StaticCalls ==
  [focus : [cx : FocusValues, cy : FocusValues], depth : 1..6,
   inputWidth : (1..MaxFrame) \cup {1920}, inputHeight : (1..MaxFrame) \cup {1080}]

InitStatic ==
  /\ call \in StaticCalls
  /\ result = None
  /\ pc = "ready"
  /\ config = None
  /\ steps = <<>>

GenerateStaticZoomFilter ==
  /\ result' = Returned(generateStaticZoomFilter(call.focus, call.depth,
                                                 call.inputWidth, call.inputHeight))
  /\ pc' = "staticZoom"
  /\ UNCHANGED <<call, config, steps>>

NextStatic == GenerateStaticZoomFilter

SpecStatic == InitStatic /\ [][NextStatic]_vars

(***************************************************************************)
(* C17: for every depth, focus (also outside [0,1]) and positive frame     *)
(* size the static zoom filter crops a window inside the frame:            *)
(* cropX >= 0, cropY >= 0, cropX + cropW <= inputWidth and                 *)
(* cropY + cropH <= inputHeight.                                           *)
(***************************************************************************)
InsideFrame(crop, w, h) ==
  /\ crop.cropX >= 0
  /\ crop.cropY >= 0
  /\ crop.cropX + crop.cropW <= w
  /\ crop.cropY + crop.cropH <= h

C17_StaticCropInsideFrame ==
  pc = "staticZoom" =>
    LET crop == staticCrop(call.focus, call.depth, call.inputWidth, call.inputHeight)
    IN /\ result.value = staticFilterString(crop, call.inputWidth, call.inputHeight)
       /\ InsideFrame(crop, call.inputWidth, call.inputHeight)

C17_Witness ==
  /\ pc = "staticZoom"
  /\ call.focus = [cx |-> <<1, 2>>, cy |-> <<3, 50>>]
  /\ call.depth = 3
  /\ result.value = "crop=1067:600:427:0,scale=1920:1080:flags=lanczos"

C17_WitnessOutside ==
  /\ pc = "staticZoom"
  /\ call.focus = [cx |-> <<3, 2>>, cy |-> <<-1, 2>>]
  /\ call.depth = 6
  /\ result.value = "crop=384:216:1536:0,scale=1920:1080:flags=lanczos"

(***************************************************************************)
(* C18: each crop expression evaluates at time t to the value of the       *)
(* first region, in ascending startMs order, whose window                  *)
(* [startMs - 320, endMs + 320] contains t, and to the full-frame value    *)
(* when no window contains t.                                              *)
(***************************************************************************)
InWindow == {i \in 1..Len(call.regions) :
               /\ call.regions[i].startMs - 320 <= call.timeMs
               /\ call.timeMs <= call.regions[i].endMs + 320}

EarliestInWindow ==
  CHOOSE i \in InWindow :
    \A j \in InWindow :
      \/ call.regions[i].startMs < call.regions[j].startMs
      \/ (call.regions[i].startMs = call.regions[j].startMs /\ i <= j)

FullFrameBox == [w |-> <<call.frame.width, 1>>, h |-> <<call.frame.height, 1>>,
                 x |-> <<0, 1>>, y |-> <<0, 1>>]

\* the blend weight of region r at time t inside its window
RampOf(r, t) ==
  IF t < r.startMs THEN smoothStep(<<t - (r.startMs - 320), 320>>)
  ELSE IF t <= r.endMs THEN <<1, 1>>
  ELSE smoothStep(<<(r.endMs + 320) - t, 320>>)

RegionBoxAt(r, t) ==
  LET target == zoomBox(r, call.frame.width, call.frame.height)
      blend(param) ==
        fAdd(FullFrameBox[param],
             fMul(fSub(<<target[param], 1>>, FullFrameBox[param]), RampOf(r, t)))
  IN [w |-> blend("w"), h |-> blend("h"), x |-> blend("x"), y |-> blend("y")]

C18_EarliestWindowDecides ==
  pc = "cropAt" =>
    IF InWindow = {}
    THEN result = FullFrameBox
    ELSE result = RegionBoxAt(call.regions[EarliestInWindow], call.timeMs)

C18_Witness ==
  /\ pc = "cropAt"
  /\ Len(call.regions) = 2
  /\ InWindow = {1, 2}
  /\ call.regions[2].startMs < call.regions[1].startMs
  /\ result = RegionBoxAt(call.regions[2], call.timeMs)
  /\ result # RegionBoxAt(call.regions[1], call.timeMs)

C18_WitnessFullFrame ==
  /\ pc = "cropAt"
  /\ Len(call.regions) = 2
  /\ InWindow = {}
  /\ result = FullFrameBox

(***************************************************************************)
(* C19: at every time t >= 0 the four crop expressions describe a box      *)
(* inside the frame: x >= 0, y >= 0, w > 0, h > 0, x + w <= inputWidth and *)
(* y + h <= inputHeight, in lead-in, active span and lead-out alike.       *)
(***************************************************************************)
C19_CropBoxInsideFrame ==
  pc = "cropAt" =>
    /\ ~fLess(result.x, <<0, 1>>)
    /\ ~fLess(result.y, <<0, 1>>)
    /\ fLess(<<0, 1>>, result.w)
    /\ fLess(<<0, 1>>, result.h)
    /\ ~fLess(<<call.frame.width, 1>>, fAdd(result.x, result.w))
    /\ ~fLess(<<call.frame.height, 1>>, fAdd(result.y, result.h))

C19_Witness ==
  /\ pc = "cropAt"
  /\ Len(call.regions) = 2
  /\ InWindow = {1, 2}
  /\ call.timeMs < call.regions[EarliestInWindow].startMs
  /\ fLess(<<0, 1>>, result.x)
  /\ fLess(result.w, <<call.frame.width, 1>>)
  /\ result.w # <<zoomBox(call.regions[EarliestInWindow], call.frame.width, call.frame.height).w, 1>>

C19_WitnessLeadOut ==
  /\ pc = "cropAt"
  /\ InWindow # {}
  /\ call.timeMs > call.regions[EarliestInWindow].endMs
  /\ fLess(result.h, <<call.frame.height, 1>>)
  /\ result.y = <<0, 1>>

(***************************************************************************)
(* The keyframe sampler as a state machine: one call of                    *)
(* sampleZoomKeyframes with a region list, a duration and an interval.     *)
(***************************************************************************)
SampleIntervals == {TimeStep, 2 * TimeStep, 4 * TimeStep}

SampleDurations == {1000, MaxTicks * TimeStep}

SampleCalls ==
  [regions : SeqsUpTo(ZoomList, MaxRegions), durationMs : SampleDurations,
   sampleIntervalMs : SampleIntervals]

InitSample ==
  /\ call \in SampleCalls
  /\ result = None
  /\ pc = "ready"
  /\ config = None
  /\ steps = <<>>

SampleZoomKeyframes ==
  /\ result' = sampleZoomKeyframes(call.regions, call.durationMs, call.sampleIntervalMs)
  /\ pc' = "keyframes"
  /\ UNCHANGED <<call, config, steps>>

NextSample == SampleZoomKeyframes

SpecSample == InitSample /\ [][NextSample]_vars

(***************************************************************************)
(* C20 as stated: each keyframe with dominant region r and strength s is   *)
(* the linear blend by s of the full frame and r's target crop box,        *)
(* cropWidth = cropHeight = 1 + (1/scale - 1) * s and                      *)
(* center = 0.5 + (clampedFocus - 0.5) * s; without a dominant region it   *)
(* is the full frame centred at (0.5, 0.5).                                *)
(***************************************************************************)
DominantAt(k) == findDominantRegion(call.regions, result[k].timeMs)

LinearCrop(scale, s) == fAdd(<<1, 1>>, fMul(fSub(<<scale[2], scale[1]>>, <<1, 1>>), s))

ReciprocalCrop(scale, s) ==
  LET zoom == fAdd(<<1, 1>>, fMul(fSub(scale, <<1, 1>>), s))
  IN norm(<<zoom[2], zoom[1]>>)

LinearCenter(c, s) == fAdd(<<1, 2>>, fMul(fSub(c, <<1, 2>>), s))

FullFrameKeyframe(k) ==
  /\ result[k].cropWidth = <<1, 1>>
  /\ result[k].cropHeight = <<1, 1>>
  /\ result[k].centerX = <<1, 2>>
  /\ result[k].centerY = <<1, 2>>

CentersBlendLinearly(k) ==
  LET r == DominantAt(k).region[1]
      clamped == clampFocus(r.focus, r.depth)
  IN /\ result[k].centerX = LinearCenter(clamped.cx, DominantAt(k).strength)
     /\ result[k].centerY = LinearCenter(clamped.cy, DominantAt(k).strength)

C20_KeyframeLinearBlend ==
  pc = "keyframes" =>
    \A k \in 1..Len(result) :
      IF DominantAt(k).region = None
      THEN FullFrameKeyframe(k)
      ELSE LET r == DominantAt(k).region[1]
               crop == LinearCrop(ZOOM_DEPTH_SCALES[r.depth], DominantAt(k).strength)
           IN /\ result[k].cropWidth = crop
              /\ result[k].cropHeight = crop
              /\ CentersBlendLinearly(k)

(***************************************************************************)
(* C20 amended: the zoom factor, not the crop size, is blended linearly:   *)
(* cropWidth = cropHeight = 1 / (1 + (scale - 1) * s), which is the linear *)
(* blend of the crop size only at s = 0 and s = 1 and smaller in between;  *)
(* the center is 0.5 + (clampedFocus - 0.5) * s; without a dominant        *)
(* region the keyframe is the full frame centred at (0.5, 0.5).            *)
(***************************************************************************)
C20_KeyframeZoomBlend ==
  pc = "keyframes" =>
    \A k \in 1..Len(result) :
      IF DominantAt(k).region = None
      THEN FullFrameKeyframe(k)
      ELSE LET r == DominantAt(k).region[1]
               s == DominantAt(k).strength
               scale == ZOOM_DEPTH_SCALES[r.depth]
           IN /\ result[k].cropWidth = ReciprocalCrop(scale, s)
              /\ result[k].cropHeight = ReciprocalCrop(scale, s)
              /\ CentersBlendLinearly(k)
              /\ IF s = <<1, 1>>
                 THEN result[k].cropWidth = LinearCrop(scale, s)
                 ELSE fLess(result[k].cropWidth, LinearCrop(scale, s))

C20_Witness ==
  /\ pc = "keyframes"
  /\ Len(call.regions) = 2
  /\ \E k \in 1..Len(result) :
       /\ DominantAt(k).region # None
       /\ DominantAt(k).strength = <<1, 2>>
       /\ result[k].cropWidth # LinearCrop(ZOOM_DEPTH_SCALES[DominantAt(k).region[1].depth], <<1, 2>>)
       /\ result[k].centerX # <<1, 2>>
  /\ \E k \in 1..Len(result) : DominantAt(k).region = None

(***************************************************************************)
(* The crop filter as a state machine: one call of generateCropFilter      *)
(* with a normalized region and a frame size.                              *)
(***************************************************************************)
CropFractions == {<<0, 1>>, <<1, 20>>, <<1, 2>>, <<19, 20>>, <<1, 1>>}

CropCalls ==
  [crop : [x : CropFractions, y : CropFractions, width : CropFractions, height : CropFractions],
   inputWidth : (1..MaxFrame) \cup {1920}, inputHeight : (1..MaxFrame) \cup {1080}]

InitCrop ==
  /\ call \in CropCalls
  /\ result = None
  /\ pc = "ready"
  /\ config = None
  /\ steps = <<>>

GenerateCropFilter ==
  /\ result' = Returned(generateCropFilter(call.crop, call.inputWidth, call.inputHeight))
  /\ pc' = "cropFilter"
  /\ UNCHANGED <<call, config, steps>>

NextCrop == GenerateCropFilter

SpecCrop == InitCrop /\ [][NextCrop]_vars

\* the pixel rectangle named by the returned crop filter string
EmittedCrop == cropPixels(call.crop, call.inputWidth, call.inputHeight)

CropStringOf(p) ==
  "crop=" \o ToString(p.w) \o ":" \o ToString(p.h) \o ":" \o ToString(p.x) \o ":" \o ToString(p.y)

(***************************************************************************)
(* C21: the width and height emitted by generateCropFilter are even        *)
(* integers for any region and frame size; an odd rounded value is         *)
(* lowered by one.                                                         *)
(***************************************************************************)
RoundedWidth == round(call.crop.width[1] * call.inputWidth, call.crop.width[2])

RoundedHeight == round(call.crop.height[1] * call.inputHeight, call.crop.height[2])

C21_CropDimensionsEven ==
  pc = "cropFilter" =>
    /\ result.value = CropStringOf(EmittedCrop)
    /\ EmittedCrop.w % 2 = 0
    /\ EmittedCrop.h % 2 = 0
    /\ EmittedCrop.w \in {RoundedWidth, RoundedWidth - 1}
    /\ EmittedCrop.h \in {RoundedHeight, RoundedHeight - 1}

C21_Witness ==
  /\ pc = "cropFilter"
  /\ RoundedWidth % 2 = 1
  /\ RoundedHeight % 2 = 1
  /\ EmittedCrop.w = RoundedWidth - 1
  /\ EmittedCrop.h = RoundedHeight - 1

C21_WitnessExample ==
  /\ pc = "cropFilter"
  /\ call.crop = [x |-> <<0, 1>>, y |-> <<1, 20>>, width |-> <<1, 1>>, height |-> <<19, 20>>]
  /\ result.value = "crop=1920:1026:0:54"

(***************************************************************************)
(* C26: for a region with x, y, width, height in [0,1], x + width <= 1 and *)
(* y + height <= 1, the emitted pixel rectangle lies inside the frame:     *)
(* xPx + wPx <= inputWidth and yPx + hPx <= inputHeight.                   *)
(***************************************************************************)
RegionInsideUnitSquare ==
  /\ ~fLess(<<1, 1>>, fAdd(call.crop.x, call.crop.width))
  /\ ~fLess(<<1, 1>>, fAdd(call.crop.y, call.crop.height))

C26_CropInsideFrame ==
  (pc = "cropFilter" /\ RegionInsideUnitSquare) =>
    /\ result.value = CropStringOf(EmittedCrop)
    /\ EmittedCrop.x + EmittedCrop.w <= call.inputWidth
    /\ EmittedCrop.y + EmittedCrop.h <= call.inputHeight

(***************************************************************************)
(* C23: for cut regions with startMs < endMs, in any order, adjacent,      *)
(* overlapping or nested, no kept segment contains a time that lies        *)
(* strictly inside a cut region.                                           *)
(***************************************************************************)
AllCutsProper == \A i \in 1..Len(Cuts) : ProperCut(Cuts[i])

\* some time lies in the segment and strictly inside the cut
SegmentMeetsCut(seg, cut) ==
  /\ seg.startSec < cut.endMs
  /\ cut.startMs < seg.endSec
  /\ cut.startMs < cut.endMs

C23_NoCutTimeSurvives ==
  (pc = "keptSegments" /\ AllCutsProper) =>
    \A i \in 1..Len(result.value), j \in 1..Len(Cuts) :
      ~SegmentMeetsCut(result.value[i], Cuts[j])

(***************************************************************************)
(* C24: for any cut regions and total duration the kept segments are       *)
(* ascending, pairwise non-overlapping, of positive length and inside      *)
(* [0, totalDurationMs], also when a cut starts or ends after the clip.    *)
(* Stated here for cut regions with startMs < endMs.                       *)
(***************************************************************************)
C24_SegmentsOrderedInsideClip ==
  (pc = "keptSegments" /\ AllCutsProper) =>
    LET segs == result.value
    IN /\ \A i \in 1..Len(segs) :
            /\ segs[i].startSec < segs[i].endSec
            /\ 0 <= segs[i].startSec
            /\ segs[i].endSec <= call.totalDurationMs
       /\ \A i \in 1..(Len(segs) - 1) : segs[i].endSec <= segs[i + 1].startSec

(***************************************************************************)
(* C25: for pairwise non-overlapping cut regions inside the clip the       *)
(* lengths of the kept segments sum to computeEffectiveDuration of the     *)
(* same regions and duration.                                              *)
(***************************************************************************)
CutsNonOverlappingInside ==
  /\ \A i \in 1..Len(Cuts) :
       /\ Cuts[i].startMs <= Cuts[i].endMs
       /\ 0 <= Cuts[i].startMs
       /\ Cuts[i].endMs <= call.totalDurationMs
  /\ \A i, j \in 1..Len(Cuts) :
       i # j => Cuts[i].endMs <= Cuts[j].startMs \/ Cuts[j].endMs <= Cuts[i].startMs

RECURSIVE SegmentLengthSum(_)
SegmentLengthSum(segs) ==
  IF segs = <<>> THEN 0
  ELSE (Head(segs).endSec - Head(segs).startSec) + SegmentLengthSum(Tail(segs))

C25_KeptSumIsEffectiveDuration ==
  (pc = "keptSegments" /\ CutsNonOverlappingInside) =>
    SegmentLengthSum(result.value)
      = computeEffectiveDuration(call.trimRegions, call.totalDurationMs)

(***************************************************************************)
(* C28: the plan has a background-compositing step exactly when            *)
(* generateBackgroundFilter does not short-circuit to the no-op resize,    *)
(* that is when padding > 0 or borderRadius > 0; a background with         *)
(* borderRadius > 0 and padding 0 gets its compositing pass.               *)
(***************************************************************************)
HasBackgroundStep ==
  \E k \in 1..Len(steps) :
    /\ steps[k].description = "Apply background/wallpaper"
    /\ hasFlag(steps[k], "-filter_complex")

NoOpResize == "scale=" \o ToString(canvasWidth(config)) \o ":" \o ToString(canvasHeight(config))

BackgroundFilterNeeded ==
  /\ config.background # None
  /\ generateBackgroundFilter(config.background[1], canvasWidth(config), canvasHeight(config))
       # NoOpResize

RadiusOf(b) == IF b.borderRadius = None THEN 0 ELSE b.borderRadius[1]

C28_BackgroundStepIffFilter ==
  planned =>
    /\ HasBackgroundStep <=> BackgroundFilterNeeded
    /\ BackgroundFilterNeeded <=>
         (config.background # None
          /\ (PaddingOf(config.background[1]) > 0 \/ RadiusOf(config.background[1]) > 0))

(***************************************************************************)
(* The background filter as a state machine: one call of                   *)
(* generateBackgroundFilter with a background config and a frame size.     *)
(***************************************************************************)
Paddings == {0, 10, 25, 49, 50, 75, 100}

BackgroundCalls ==
  [background : [type : {"color", "blur", "image", "gradient"}, color : {None},
                 imagePath : {None}, blurRadius : {None},
                 padding : {Some(p) : p \in Paddings},
                 borderRadius : {None, Some(12)}],
   videoWidth : (1..MaxFrame) \cup {1920}, videoHeight : (1..MaxFrame) \cup {1080}]

InitBackground ==
  /\ call \in BackgroundCalls
  /\ result = None
  /\ pc = "ready"
  /\ config = None
  /\ steps = <<>>

GenerateBackgroundFilter ==
  /\ result' = Returned(generateBackgroundFilter(call.background, call.videoWidth,
                                                 call.videoHeight))
  /\ pc' = "backgroundFilter"
  /\ UNCHANGED <<call, config, steps>>

NextBackground == GenerateBackgroundFilter

SpecBackground == InitBackground /\ [][NextBackground]_vars

(***************************************************************************)
(* C29: for every background type, every padding in [0,100] and every      *)
(* positive frame size the emitted foreground size,                        *)
(* innerW = width - 2*padPx and innerH = height - 2*padPx with             *)
(* padPx = round(padding/100 * min(width,height)), is positive on both     *)
(* axes and the overlay offset is padPx on both axes.                      *)
(***************************************************************************)
PadPx == round(PaddingOf(call.background) * min(call.videoWidth, call.videoHeight), 100)

InnerW == call.videoWidth - 2 * PadPx

InnerH == call.videoHeight - 2 * PadPx

FrameString == ToString(call.videoWidth) \o ":" \o ToString(call.videoHeight)

\* the filter graph that scales the foreground to iw x ih and overlays it at (ox, oy)
CompositeWith(iw, ih, ox, oy) ==
  LET r == RadiusOf(call.background)
      fg == "[0:v]scale=" \o ToString(iw) \o ":" \o ToString(ih) \o ":flags=lanczos[vid]"
      colorBg(c) == "color=c=" \o c \o ":s=" \o ToString(call.videoWidth) \o "x"
                    \o ToString(call.videoHeight) \o ":d=1[bg]"
      head == CASE call.background.type = "color" -> <<fg, colorBg("0x000000")>>
                [] call.background.type = "gradient" -> <<fg, colorBg("0x1a1a2e")>>
                [] call.background.type = "blur" ->
                     <<"[0:v]scale=" \o FrameString \o ":flags=lanczos,boxblur=20:20[bg]", fg>>
                [] call.background.type = "image" ->
                     <<"[1:v]scale=" \o FrameString
                       \o ":flags=lanczos:force_original_aspect_ratio=increase,crop="
                       \o FrameString \o "[bg]", fg>>
      mask == IF r > 0
              THEN <<overlayFilters(call.videoWidth, call.videoHeight,
                                    PaddingOf(call.background), r)[1]>>
              ELSE <<>>
      overlay == "[bg]" \o (IF r > 0 THEN "[rounded]" ELSE "[vid]") \o "overlay="
                 \o ToString(ox) \o ":" \o ToString(oy) \o ":format=auto"
  IN join(head \o mask \o <<overlay>>, "; ")

C29_ForegroundPositive ==
  (pc = "backgroundFilter"
   /\ (PaddingOf(call.background) > 0 \/ RadiusOf(call.background) > 0)) =>
    /\ result.value = CompositeWith(InnerW, InnerH, PadPx, PadPx)
    /\ InnerW > 0
    /\ InnerH > 0

(***************************************************************************)
(* C27: with crop and zoom both enabled, the zoom filter that follows the  *)
(* crop filter in the '-vf' chain is computed for the frame the crop       *)
(* filter outputs: at every time t its crop window (w, h, x, y) lies       *)
(* within that frame.                                                      *)
(***************************************************************************)
CroppedFrame ==
  LET p == cropPixels(config.crop[1], config.video.width, config.video.height)
  IN [width |-> p.w, height |-> p.h]

SourceFrame == [width |-> config.video.width, height |-> config.video.height]

AnnotationChain ==
  IF AnnotationsOn
     /\ generateAnnotationFilters(config.annotations[1], canvasWidth(config),
                                  canvasHeight(config)) # ""
  THEN <<generateAnnotationFilters(config.annotations[1], canvasWidth(config),
                                   canvasHeight(config))>>
  ELSE <<>>

\* the frame sizes for which the zoom filter of the '-vf' chain of step k was built
ZoomFramesOf(k) ==
  {f \in {SourceFrame, CroppedFrame} :
     argAfter(steps[k], "-vf")
       = join(<<generateCropFilter(config.crop[1], config.video.width, config.video.height),
                generateZoomFilter(config.zoom[1].regions, f.width, f.height)>>
              \o AnnotationChain, ",")}

FrameTimes == {0, 840, 1000, 2000, 3160, 6000}

WindowInside(box, frame) ==
  /\ ~fLess(box.x, <<0, 1>>)
  /\ ~fLess(box.y, <<0, 1>>)
  /\ ~fLess(<<frame.width, 1>>, fAdd(box.x, box.w))
  /\ ~fLess(<<frame.height, 1>>, fAdd(box.y, box.h))

C27_ZoomFitsCroppedFrame ==
  (planned /\ CropOn /\ ZoomOn) =>
    \E k \in VfSteps :
      /\ ZoomFramesOf(k) # {}
      /\ \A f \in ZoomFramesOf(k), t \in FrameTimes :
           WindowInside(cropAt(config.zoom[1].regions, f.width, f.height, t), CroppedFrame)

(***************************************************************************)
(* C30: for every config buildPipeline returns at least one and at most    *)
(* three steps and creates at most two intermediate paths; a config whose  *)
(* annotations all produce no filter (empty text or unknown type) and that *)
(* enables nothing else yields exactly one stream-copy step, and no step   *)
(* carries an empty '-vf'.                                                 *)
(***************************************************************************)
IntermediatePaths ==
  {outputOf(steps[k]) : k \in 1..Len(steps)} \ {Str(config.outputPath)}

NoAnnotationFilter ==
  /\ AnnotationsOn
  /\ generateAnnotationFilters(config.annotations[1], canvasWidth(config),
                               canvasHeight(config)) = ""

OnlySilentAnnotations ==
  NoAnnotationFilter /\ ~TrimOn /\ ~ZoomOn /\ ~CropOn /\ ~BackgroundOn

C30_PlanSize ==
  planned =>
    /\ Len(steps) >= 1
    /\ Len(steps) <= 3
    /\ Cardinality(IntermediatePaths) <= 2
    /\ \A k \in 1..Len(steps) : hasFlag(steps[k], "-vf") => argAfter(steps[k], "-vf") # ""
    /\ OnlySilentAnnotations =>
         steps = <<copyStep(Str(config.inputPath), Str(config.outputPath))>>

C30_Witness ==
  /\ planned
  /\ OnlySilentAnnotations
  /\ config.annotations[1][1].type \notin {"text", "arrow"}
  /\ Len(steps) = 1

C30_WitnessThreeSteps ==
  planned /\ Len(steps) = 3 /\ Cardinality(IntermediatePaths) = 2

(***************************************************************************)
(* The 'process' command (index.ts): plan, then either print the plan      *)
(* (--dry-run) or run the steps one after another with runFfmpeg.          *)
(* call is the command's options; result holds what the command did: ran   *)
(* (the argument lists handed to execFileSync, in order), statuses (what   *)
(* each finished invocation reported: Some(code), or None when it ended    *)
(* without an exit status: killed by a signal, or never spawned), stderr   *)
(* and stdout (the lines written), exit (the status the process ended      *)
(* with, None while it runs).                                              *)
(***************************************************************************)
ProcessConfigs ==
  {Config(o, t, z, None, b, None) :
     o \in Outputs,
     t \in {None, Some(<<[id |-> "t2", startMs |-> 20000, endMs |-> 40000]>>)},
     z \in {None, Some([regions |-> <<[id |-> "z1", startMs |-> 1000, endMs |-> 3000, depth |-> 3,
                                       focus |-> [cx |-> <<1, 2>>, cy |-> <<3, 50>>]]>>])},
     b \in {None, Some([type |-> "color", color |-> None, imagePath |-> None, blurRadius |-> None,
                        padding |-> Some(10), borderRadius |-> None])}}

\* exit statuses of a failed engine run
FailureStatuses == {Some(1), Some(2), Some(69), Some(255), None}

\* variant: every failure exits with 1
exitStatusOf_one(status) == 1

\* `err.status ?? 1`
exitStatusOf(status) == orElse(status, 1)

\* `err.status ?? 'unknown'`
failureLine(status) ==
  "FFmpeg failed with exit code " \o (IF status = None THEN "unknown" ELSE ToString(status[1]))

progressLine(i, n, description) ==
  "[" \o ToString(i) \o "/" \o ToString(n) \o "] " \o description

\* the lines of the dry run for step i; the command line is kept as the
\* argument list it is rendered from
dryRunLines(i, step) ==
  <<"# Step " \o ToString(i) \o ": " \o step.description, step.args, "">>

RECURSIVE dryRunOutput(_, _)
dryRunOutput(plan, i) ==
  IF i > Len(plan) THEN <<>> ELSE dryRunLines(i, plan[i]) \o dryRunOutput(plan, i + 1)

InitProcess ==
  /\ config \in ProcessConfigs
  /\ steps = <<>>
  /\ pc = "ready"
  /\ call \in [dryRun : BOOLEAN]
  /\ result = [ran |-> <<>>, statuses |-> <<>>, stderr |-> <<>>, stdout |-> <<>>, exit |-> None]

PlanSteps ==
  /\ pc = "ready"
  /\ steps' = buildPipeline(config)
  /\ pc' = IF call.dryRun THEN "dryRun" ELSE "loop"
  /\ UNCHANGED <<config, call, result>>

DryRun ==
  /\ pc = "dryRun"
  /\ result' = [result EXCEPT !.stdout = dryRunOutput(steps, 1), !.exit = Some(0)]
  /\ pc' = "returned"
  /\ UNCHANGED <<config, steps, call>>

\* one iteration of the loop up to the call of execFileSync
StartStep ==
  /\ pc = "loop"
  /\ Len(result.ran) < Len(steps)
  /\ LET i == Len(result.ran) + 1
     IN result' = [result EXCEPT
                     !.stderr = Append(@, progressLine(i, Len(steps), steps[i].description)),
                     !.ran = Append(@, steps[i].args)]
  /\ pc' = "running"
  /\ UNCHANGED <<config, steps, call>>

\* execFileSync returns: the engine exited with status 0
StepSucceeds ==
  /\ pc = "running"
  /\ result' = [result EXCEPT !.statuses = Append(@, Some(0))]
  /\ pc' = "loop"
  /\ UNCHANGED <<config, steps, call>>

\* execFileSync throws: the catch block of runFfmpeg
StepFails ==
  /\ pc = "running"
  /\ \E status \in FailureStatuses :
       result' = [result EXCEPT !.statuses = Append(@, status),
                                !.stderr = Append(@, failureLine(status)),
                                !.exit = Some(exitStatusOf(status))]
  /\ pc' = "exited"
  /\ UNCHANGED <<config, steps, call>>

\* the loop is over
ReportDone ==
  /\ pc = "loop"
  /\ Len(result.ran) = Len(steps)
  /\ result' = [result EXCEPT !.stderr = Append(@, "Done."), !.exit = Some(0)]
  /\ pc' = "returned"
  /\ UNCHANGED <<config, steps, call>>

NextProcess == PlanSteps \/ DryRun \/ StartStep \/ StepSucceeds \/ StepFails \/ ReportDone

SpecProcess == InitProcess /\ [][NextProcess]_vars

(***************************************************************************)
(* C22: 'process' runs the planned steps strictly in the returned order,   *)
(* one at a time; if the engine run of step k exits non-zero, no step      *)
(* after k is started and the process exits with that step's exit status   *)
(* unchanged; 'Done.' is reported only after every step succeeded.         *)
(***************************************************************************)
DoneReported == \E n \in 1..Len(result.stderr) : result.stderr[n] = "Done."

ExitedNonZero(k) == result.statuses[k] # None /\ result.statuses[k] # Some(0)

C22_StepsRunInOrder ==
  /\ Len(result.ran) <= Len(steps)
  /\ \A k \in 1..Len(result.ran) : result.ran[k] = steps[k].args
  /\ Len(result.statuses) = (IF pc = "running" THEN Len(result.ran) - 1 ELSE Len(result.ran))
  /\ \A k \in 1..Len(result.statuses) :
       /\ k < Len(result.ran) => result.statuses[k] = Some(0)
       /\ ExitedNonZero(k) => Len(result.ran) = k /\ result.exit = result.statuses[k]
  /\ DoneReported =>
       /\ Len(result.statuses) = Len(steps)
       /\ \A k \in 1..Len(steps) : result.statuses[k] = Some(0)

C22_Witness ==
  /\ Len(steps) = 3
  /\ Len(result.ran) = 2
  /\ result.statuses = <<Some(0), Some(2)>>
  /\ result.exit = Some(2)
  /\ pc = "exited"

C22_WitnessDone == DoneReported /\ Len(steps) = 3

====
